---- MODULE Spec2Model ----
(***************************************************************************)
(* Model of the rehydrating storage client                                 *)
(* (src/storage/src/client/controller/rehydration.rs): the owner handle    *)
(* RehydratingStorageClient, the spawned RehydrationTask with its          *)
(* Rehydrate / Pump / Done state machine, the command log `ingestions`,    *)
(* and the reconnectable transport it drives.                              *)
(***************************************************************************)
EXTENDS Integers, Sequences, FiniteSets, TLC

(***************************************************************************)
(* Bounds of the model.                                                    *)
(***************************************************************************)
\* number of commands the owner issues
MaxCmds == 2
\* number of transport failures (reconnect, send, recv) in one behaviour
MaxFail == 2
\* number of Ok responses the transport returns in one behaviour
MaxResp == 2
\* number of commands absorbed in a behaviour of SpecAbsorb
MaxAbsorb == 2

\* GlobalIds, ingestion descriptions and timestamps of the model
Ids == {1, 2}
Descs == {"a", "b"}
Times == {1, 2}

\* StorageResponse values: the transport's n-th Ok response is the value n
Responses == 1..MaxResp + 1

(***************************************************************************)
(* Frontiers: antichains over the totally ordered timestamp type, so the   *)
(* empty antichain (the collection is closed) or a singleton.              *)
(***************************************************************************)
Frontiers == {{}} \cup {{t} : t \in Times}

\* Timestamp::minimum(), the since of a collection nothing has compacted
MinFrontier == {0}

\* f1 <= f2 in the frontier order (the empty antichain is the top)
FrontierLe(f1, f2) == \A t2 \in f2 : \E t1 \in f1 : t1 <= t2

\* the join (least upper bound) of two frontiers
Join(f1, f2) ==
    IF f1 = {} \/ f2 = {} THEN {}
    ELSE {CHOOSE t \in f1 \cup f2 : \A u \in f1 \cup f2 : u <= t}

(***************************************************************************)
(* Commands.  IngestSourceCommand carries the id and the description of    *)
(* the ingestion; StorageCommand is IngestSources(Vec<IngestSourceCommand>)*)
(* or AllowCompaction(Vec<(GlobalId, Antichain<T>)>).                      *)
(***************************************************************************)
IngestSourceCommand == [id : Ids, description : Descs]

IngestSources(ingestions) == [kind |-> "IngestSources", body |-> ingestions]

AllowCompaction(frontiers) == [kind |-> "AllowCompaction", body |-> frontiers]

\* the commands the owner issues: every one-entry command, and two-entry
\* commands for each way the entries of one command can meet in the log
StorageCommand ==
    {IngestSources(<<s>>) : s \in IngestSourceCommand}
    \cup {AllowCompaction(<<e>>) : e \in Ids \X Frontiers}
    \cup {IngestSources(<<[id |-> 1, description |-> "a"],
                          [id |-> 2, description |-> "a"]>>),
          IngestSources(<<[id |-> 1, description |-> "a"],
                          [id |-> 1, description |-> "b"]>>),
          AllowCompaction(<<<<1, {1}>>, <<2, {}>>>>),
          AllowCompaction(<<<<1, {2}>>, <<1, {}>>>>)}

(***************************************************************************)
(* BTreeMap<GlobalId, IngestSourceCommand>: the entries <<key, value>> in  *)
(* ascending key order, one entry per key.                                 *)
(***************************************************************************)
BTreeMapNew == <<>>

BTreeMapInsert_Push(m, k, v) == Append(m, <<k, v>>)

BTreeMapInsert(m, k, v) ==
    SelectSeq(m, LAMBDA e : e[1] < k) \o <<<<k, v>>>>
        \o SelectSeq(m, LAMBDA e : e[1] > k)

BTreeMapRemove(m, k) == SelectSeq(m, LAMBDA e : e[1] # k)

BTreeMapValues(m) == [i \in 1..Len(m) |-> m[i][2]]

BTreeMapKeys(m) == {m[i][1] : i \in 1..Len(m)}

VARIABLES
    state,        \* RehydrationTaskState of the task's run loop
    command_rx,   \* commands queued on the command channel, oldest first
    owner_alive,  \* the RehydratingStorageClient (command_tx, response_rx) exists
    response_rx,  \* items delivered on the response channel, oldest first
    ingestions,   \* RehydrationTask::ingestions, the command log
    conn,         \* commands the transport accepted on the current connection
    outcome,      \* what the task's last step observed
    tries,        \* consecutive failed reconnects of the current step_rehydrate
    fails,        \* transport failures so far
    issued,       \* history: commands the owner passed to send()
    absorbed,     \* history: commands passed to absorb_command
    handed,       \* history: owner commands passed to client.send
    received,     \* history: Ok responses client.recv() returned
    undelivered   \* history: absorbed commands (by index) no successful send carried

task_vars == <<state, command_rx, owner_alive, response_rx, ingestions, conn,
               outcome, tries, fails, issued, absorbed, handed, received,
               undelivered>>

owner_vars == <<command_rx, owner_alive, issued>>
log_vars == <<ingestions, absorbed, handed>>
resp_vars == <<response_rx, received>>

(***************************************************************************)
(* The controller (src/controller/src/lib.rs): the map of compute          *)
(* instances, the single-slot response stash, the orchestrator it calls,   *)
(* and the responses its backends hold ready for it.                       *)
(***************************************************************************)
\* number of lifecycle calls (create_instance, add_replica_to_instance,
\* drop_replica, drop_instance) and of backend events (reports, answers,
\* batches, heartbeats) in one behaviour
MaxSteps == 5
\* the greatest timestamp a replica or the storage layer reports
MaxUpper == 1

ComputeInstanceIds == {1, 2}
ReplicaIds == {1, 2}
Uuids == {1}
\* the collections of a compute instance: a dataflow the replicas report
\* on and the output of a subscribe
DataflowId == "d1"
TailId == "s1"
CollectionIds == {DataflowId, TailId}
\* a collection no instance knows
UnknownCollection == "x1"
\* the collection of the storage layer
StorageId == "u1"
UpperTimes == 0..MaxUpper

VARIABLES
    compute,           \* Controller::compute
    stashed_response,  \* Controller::stashed_response, <<>> for None
    storage_controller,\* Controller::storage_controller
    orch_req,          \* calls the last lifecycle call made to the orchestrator
    pc,                \* where the caller of the controller stands
    returned,          \* what the last process() returned, <<>> before the first
    surfaced,          \* how many PeekResponse events process() returned, by uuid
    dropped,           \* ids of the instances drop_instance has removed
    peeked,            \* uuids of the peeks issued so far
    steps              \* lifecycle calls and backend events so far

ctl_vars == <<compute, stashed_response, storage_controller, orch_req, pc,
              returned, surfaced, dropped, peeked, steps>>

(***************************************************************************)
(* The free functions and the default size map of the controller crate,    *)
(* and the since frontiers of a compute instance.  Each is exercised by a  *)
(* specification of its own; the task and the controller leave them alone. *)
(***************************************************************************)
VARIABLES
    service_name,       \* the &str handed to parse_replica_service_name
    origin,             \* where service_name comes from
    generated,          \* the ids service_name was generated from
    parsed,             \* what parse_replica_service_name made of it
    edits,              \* number of changes made to a generated name
    size_name,          \* the key looked up in ClusterReplicaSizeMap::default()
    size_config,        \* the entry found under it
    since,              \* since frontier of every collection of an instance
    compaction_call,    \* arguments of the last allow_compaction
    compaction_result,  \* and what it returned
    service_events,     \* items the stream of watch_services has produced
    instance_events,    \* events the stream of watch_compute_services yielded
    watch_pc            \* whether that stream can still be polled

watch_vars == <<service_events, instance_events, watch_pc>>

lib_vars == <<service_name, origin, generated, parsed, edits, size_name,
              size_config, since, compaction_call, compaction_result,
              watch_vars>>

vars == <<task_vars, ctl_vars, lib_vars>>

\* The caller of the controller is "idle", or waits on a future of ready()
\* ("ready"), or has dropped that future ("cancelled"), or has seen ready()
\* return after a wait ("ready_done") or at once ("ready_immediate"), or has
\* been returned an error by a lifecycle call ("failed"); after a panic the
\* controller is "aborted".  A call can be made when none is pending.
Callable ==
    pc \in {"idle", "cancelled", "ready_done", "ready_immediate", "failed",
           "process_failed"}

\* MutableAntichain: how many times each timestamp has been added; the
\* frontier is the least timestamp held
MutableAntichainNew == [t \in UpperTimes |-> IF t = 0 THEN 1 ELSE 0]

Frontier(counts) ==
    LET held == {t \in DOMAIN counts : counts[t] > 0} IN
    IF held = {} THEN {}
    ELSE {CHOOSE t \in held : \A u \in held : t <= u}

\* ChangeBatch: +1 for the timestamps of plus, -1 for those of minus
ChangeBatch(plus, minus) == [plus |-> plus, minus |-> minus]

UpdateIter(counts, plus, minus) ==
    [t \in DOMAIN counts |->
        counts[t] + (IF t \in plus THEN 1 ELSE 0) - (IF t \in minus THEN 1 ELSE 0)]

\* responses of the backends, with the fields of all kinds
Response(kind, id, lower, upper, tag) ==
    [kind |-> kind, id |-> id, lower |-> lower, upper |-> upper, tag |-> tag]

FrontierUppers(id, changes) ==
    Response("FrontierUppers", id, changes.minus, changes.plus, 0)

PeekResponse(uuid) == Response("PeekResponse", "", {}, {}, uuid)

TailBatch(id, lower, upper) == Response("TailBatch", id, lower, upper, 0)

TailDroppedAt(id, frontier) == Response("TailDroppedAt", id, frontier, {}, 0)

ReplicaHeartbeat(replica_id, when) ==
    Response("ReplicaHeartbeat", "", {}, {when}, replica_id)

LinearizedTimestamps(res) == Response("LinearizedTimestamps", "", {}, {}, res)

\* Ok(None) of process()
NoEvent == Response("None", "", {}, {}, 0)

\* UnderlyingControllerResponse::Storage / ::Compute
UnderlyingStorage(response) ==
    [source |-> "Storage", instance |-> 0, response |-> response]

UnderlyingCompute(instance, response) ==
    [source |-> "Compute", instance |-> instance, response |-> response]

\* ComputeControllerState::new: no replica, no peek, every collection at
\* the minimum frontier, nothing to deliver
ComputeControllerStateNew ==
    [replicas |-> {},
     replica_uppers |-> [r \in ReplicaIds |-> 0],
     aggregate |-> 0,
     tail |-> 0,
     peeks |-> {},
     answered |-> {},
     client_peeks |-> {},
     uppers |-> [c \in CollectionIds |-> MutableAntichainNew],
     stream |-> <<>>]

\* the storage controller: the write frontier it tracks for its collection,
\* the upper its backend last reported, the responses it holds ready
StorageControllerNew ==
    [uppers |-> MutableAntichainNew, reported |-> 0, rx |-> <<>>]

\* BTreeMap<ComputeInstanceId, ComputeControllerState> insert and remove
ComputeInsert(m, instance, st) ==
    [j \in DOMAIN m \cup {instance} |-> IF j = instance THEN st ELSE m[j]]

ComputeRemove_Keep(m, instance) == m

ComputeRemove(m, instance) == [j \in DOMAIN m \ {instance} |-> m[j]]

\* Controller::new
InitController ==
    /\ compute = <<>>
    /\ stashed_response = <<>>
    /\ storage_controller = StorageControllerNew
    /\ orch_req = <<>>
    /\ pc = "idle"
    /\ returned = <<>>
    /\ surfaced = [u \in Uuids |-> 0]
    /\ dropped = {}
    /\ peeked = {}
    /\ steps = 0

(***************************************************************************)
(* RehydrationTask::absorb_command                                         *)
(***************************************************************************)
RECURSIVE AbsorbIngestions(_, _)
AbsorbIngestions(m, ings) ==
    IF ings = <<>> THEN m
    ELSE AbsorbIngestions(BTreeMapInsert(m, Head(ings).id, Head(ings)),
                          Tail(ings))

RECURSIVE AbsorbFrontiers_AnyFrontier(_, _)
AbsorbFrontiers_AnyFrontier(m, frontiers) ==
    IF frontiers = <<>> THEN m
    ELSE AbsorbFrontiers_AnyFrontier(BTreeMapRemove(m, Head(frontiers)[1]),
                                     Tail(frontiers))

\* the emptiness test the wrong way round
RECURSIVE AbsorbFrontiers_NonEmpty(_, _)
AbsorbFrontiers_NonEmpty(m, frontiers) ==
    IF frontiers = <<>> THEN m
    ELSE AbsorbFrontiers_NonEmpty(IF Head(frontiers)[2] # {}
                                     THEN BTreeMapRemove(m, Head(frontiers)[1])
                                     ELSE m,
                                  Tail(frontiers))

RECURSIVE AbsorbFrontiers(_, _)
AbsorbFrontiers(m, frontiers) ==
    IF frontiers = <<>> THEN m
    ELSE AbsorbFrontiers(IF Head(frontiers)[2] = {}
                            THEN BTreeMapRemove(m, Head(frontiers)[1])
                            ELSE m,
                         Tail(frontiers))

absorb_command(m, command) ==
    IF command.kind = "IngestSources"
        THEN AbsorbIngestions(m, command.body)
        ELSE AbsorbFrontiers(m, command.body)

(***************************************************************************)
(* RehydrationTask::send_response: an Ok response goes to response_tx      *)
(* (Done when the receiver is gone), an Err only logs and asks for         *)
(* rehydration.                                                            *)
(***************************************************************************)
\* an Ok response put on the channel twice
SendResponseOk_Twice(response) ==
    IF owner_alive
        THEN /\ response_rx' = response_rx \o <<response, response>>
             /\ state' = "Pump"
        ELSE /\ response_rx' = response_rx
             /\ state' = "Done"

SendResponseOk(response) ==
    IF owner_alive
        THEN /\ response_rx' = Append(response_rx, response)
             /\ state' = "Pump"
        ELSE /\ response_rx' = response_rx
             /\ state' = "Done"

\* a transport error travelling upstream would be the item 0
SendResponseErr_Forward ==
    /\ response_rx' = Append(response_rx, 0)
    /\ state' = "Rehydrate"

SendResponseErr ==
    /\ response_rx' = response_rx
    /\ state' = "Rehydrate"

(***************************************************************************)
(* command_rx.recv() on a non-empty channel: the oldest queued command     *)
(* and the rest of the queue.                                              *)
(***************************************************************************)
command_rx_recv_Newest(q) == <<q[Len(q)], SubSeq(q, 1, Len(q) - 1)>>

command_rx_recv(q) == <<Head(q), Tail(q)>>

(***************************************************************************)
(* The messages step_rehydrate replays from the command log.               *)
(***************************************************************************)
Replay(m) == <<IngestSources(BTreeMapValues(m))>>

\* RehydratingStorageClient::new, but for the command log
InitTask ==
    /\ state = "Rehydrate"
    /\ command_rx = <<>>
    /\ owner_alive = TRUE
    /\ response_rx = <<>>
    /\ conn = <<>>
    /\ outcome = "start"
    /\ tries = 0
    /\ fails = 0
    /\ issued = <<>>
    /\ absorbed = <<>>
    /\ handed = <<>>
    /\ received = <<>>
    /\ undelivered = {}

(***************************************************************************)
(* Service names.  A String is the sequence of its characters, each a      *)
(* string of length one; ArabicIndicThree stands for the one character     *)
(* U+0663, a decimal digit of Unicode that is not an ASCII digit.          *)
(***************************************************************************)
MaxEdits == 1

Digits == <<"0", "1", "2", "3", "4", "5", "6", "7", "8", "9">>

ArabicIndicThree == "u0663"

\* u64's Display, as format! and usize::to_string use it
RECURSIVE to_string(_)
to_string(n) ==
    IF n < Len(Digits)
    THEN <<Digits[n + 1]>>
    ELSE Append(to_string(n \div Len(Digits)), Digits[(n % Len(Digits)) + 1])

ClusterPrefix == <<"c", "l", "u", "s", "t", "e", "r", "-">>

ReplicaInfix == <<"-", "r", "e", "p", "l", "i", "c", "a", "-">>

\* a generate_replica_service_name that leaves the dash out of the infix
generate_replica_service_name_NoDash(instance_id, replica_id) ==
    ClusterPrefix \o to_string(instance_id) \o Tail(ReplicaInfix)
        \o to_string(replica_id)

\* format!("cluster-{instance_id}-replica-{replica_id}")
generate_replica_service_name(instance_id, replica_id) ==
    ClusterPrefix \o to_string(instance_id) \o ReplicaInfix
        \o to_string(replica_id)

\* \d under (?-u)
IsAsciiDigit(c) == \E k \in DOMAIN Digits : Digits[k] = c

StartsWith(s, prefix) ==
    /\ Len(s) >= Len(prefix)
    /\ SubSeq(s, 1, Len(prefix)) = prefix

Drop(s, n) == SubSeq(s, n + 1, Len(s))

\* what a greedy \d+ takes from the head of s; <<>> if \d+ does not match
RECURSIVE DigitRun(_)
DigitRun(s) ==
    IF s = <<>> \/ ~IsAsciiDigit(Head(s))
    THEN <<>>
    ELSE <<Head(s)>> \o DigitRun(Tail(s))

\* SERVICE_NAME_RE.captures(service_name): the two groups of
\* (?-u)^cluster-(\d+)-replica-(\d+)$, or <<>> for None
Captures(name) ==
    IF ~StartsWith(name, ClusterPrefix)
    THEN <<>>
    ELSE LET rest1 == Drop(name, Len(ClusterPrefix))
             group1 == DigitRun(rest1)
             rest2 == Drop(rest1, Len(group1))
         IN  IF group1 = <<>> \/ ~StartsWith(rest2, ReplicaInfix)
             THEN <<>>
             ELSE LET rest3 == Drop(rest2, Len(ReplicaInfix))
                      group2 == DigitRun(rest3)
                  IN  IF group2 = <<>> \/ group2 # rest3
                      THEN <<>>
                      ELSE <<group1, group2>>

\* u64::MAX, 18446744073709551615, in decimal digits
U64MaxDigits ==
    <<"1", "8", "4", "4", "6", "7", "4", "4", "0", "7", "3", "7", "0", "9",
      "5", "5", "1", "6", "1", "5">>

DigitValue(c) == (CHOOSE k \in DOMAIN Digits : Digits[k] = c) - 1

RECURSIVE StripZeros(_)
StripZeros(digits) ==
    IF Len(digits) > 1 /\ Head(digits) = Digits[1]
    THEN StripZeros(Tail(digits))
    ELSE digits

\* a <= b for two numbers of as many digits
RECURSIVE DigitsLessEqual(_, _)
DigitsLessEqual(a, b) ==
    IF a = <<>> THEN TRUE
    ELSE IF DigitValue(Head(a)) # DigitValue(Head(b))
    THEN DigitValue(Head(a)) < DigitValue(Head(b))
    ELSE DigitsLessEqual(Tail(a), Tail(b))

\* whether the number written by digits is at most u64::MAX
FitsU64(digits) ==
    LET d == StripZeros(digits)
    IN  \/ Len(d) < Len(U64MaxDigits)
        \/ Len(d) = Len(U64MaxDigits) /\ DigitsLessEqual(d, U64MaxDigits)

RECURSIVE DecimalValue(_)
DecimalValue(digits) ==
    IF digits = <<>>
    THEN 0
    ELSE DecimalValue(SubSeq(digits, 1, Len(digits) - 1)) * Len(Digits)
            + DigitValue(digits[Len(digits)])

\* str::parse::<u64> on a run of ASCII digits: Ok(value), or Err on overflow
ParseU64(digits) ==
    IF FitsU64(digits)
    THEN [ok |-> TRUE, value |-> DecimalValue(digits)]
    ELSE [ok |-> FALSE, value |-> 0]

\* what a call of parse_replica_service_name comes to: Ok((instance_id,
\* replica_id)), Err("invalid service name: ..."), or the panic of an unwrap
ParseResult(kind, instance_id, replica_id) ==
    [kind |-> kind, instance_id |-> instance_id, replica_id |-> replica_id]

NotParsed == ParseResult("none", 0, 0)

parse_replica_service_name(name) ==
    LET caps == Captures(name)
    IN  IF caps = <<>>
        THEN ParseResult("invalid service name", 0, 0)
        ELSE LET instance_id == ParseU64(caps[1])
                 replica_id == ParseU64(caps[2])
             IN  IF instance_id.ok /\ replica_id.ok
                 THEN ParseResult("ok", instance_id.value, replica_id.value)
                 ELSE ParseResult("panic", 0, 0)

(***************************************************************************)
(* ClusterReplicaSizeMap.  An Option is the set of what it holds.          *)
(***************************************************************************)
MaxWorkers == 64
MaxScale == 5

ClusterReplicaSizeConfig(memory_limit, cpu_limit, scale, workers) ==
    [memory_limit |-> memory_limit, cpu_limit |-> cpu_limit,
     scale |-> scale, workers |-> workers]

\* 1 << i, but 2 * i
Shl_Double(i) == 2 * i

\* 1 << i
Shl(i) == 2 ^ i

\* Iterator::collect::<HashMap<_, _>> of a set of (key, value) pairs
Collect(pairs) ==
    [key \in {p[1] : p \in pairs} |->
        (CHOOSE p \in pairs : p[1] = key)[2]]

\* HashMap::insert
MapInsert(map, key, value) ==
    [k \in DOMAIN map \cup {key} |-> IF k = key THEN value ELSE map[k]]

\* HashMap::get
MapGet(map, key) == IF key \in DOMAIN map THEN {map[key]} ELSE {}

\* "<scale>-<workers>"
ScaledName(scale, workers) == to_string(scale) \o <<"-">> \o to_string(workers)

\* ClusterReplicaSizeMap::default
ClusterReplicaSizeMapDefault ==
    LET inner ==
            Collect({<<to_string(Shl(i)),
                       ClusterReplicaSizeConfig({}, {}, 1, Shl(i))>> :
                     i \in 0..5})
        with1 == MapInsert(inner, ScaledName(2, 1),
                           ClusterReplicaSizeConfig({}, {}, 2, 1))
        with2 == MapInsert(with1, ScaledName(2, 2),
                           ClusterReplicaSizeConfig({}, {}, 2, 2))
    IN  MapInsert(with2, ScaledName(2, 4),
                  ClusterReplicaSizeConfig({}, {}, 2, 4))

(***************************************************************************)
(* The since frontiers of the collections of a compute instance.  A        *)
(* frontier over the totally ordered times is the empty antichain or one   *)
(* time.                                                                   *)
(***************************************************************************)
MaxSince == 3

CompactionIds == {"c1", "c2"}

UnknownId == "c9"

\* c2 is a dataflow that reads c1
Inputs(id) == IF id = "c2" THEN {"c1"} ELSE {}

SinceTimes == 0..MaxSince

SinceFrontiers == {{}} \cup {{t} : t \in SinceTimes}

SinceNew == [id \in CompactionIds |-> MinFrontier]

InitLib ==
    /\ service_name = <<>>
    /\ origin = "none"
    /\ generated = <<>>
    /\ parsed = NotParsed
    /\ edits = 0
    /\ size_name = <<>>
    /\ size_config = {}
    /\ since = SinceNew
    /\ compaction_call = <<>>
    /\ compaction_result = "none"
    /\ service_events = <<>>
    /\ instance_events = <<>>
    /\ watch_pc = "open"

Init ==
    /\ InitTask
    /\ ingestions = BTreeMapNew
    /\ InitController
    /\ InitLib

(***************************************************************************)
(* RehydratingStorageClient::send, and the drop of the client handle.      *)
(***************************************************************************)
Send ==
    /\ owner_alive
    /\ Len(issued) < MaxCmds
    /\ \E cmd \in StorageCommand :
        /\ command_rx' = Append(command_rx, cmd)
        /\ issued' = Append(issued, cmd)
    /\ UNCHANGED <<state, owner_alive, response_rx, ingestions, conn, outcome,
                   tries, fails, absorbed, handed, received, undelivered>>
    /\ UNCHANGED <<ctl_vars, lib_vars>>

DropClient ==
    /\ owner_alive
    /\ owner_alive' = FALSE
    /\ UNCHANGED <<state, command_rx, response_rx, ingestions, conn, outcome,
                   tries, fails, issued, absorbed, handed, received,
                   undelivered>>
    /\ UNCHANGED <<ctl_vars, lib_vars>>

(***************************************************************************)
(* RehydrationTask::send_command: the transport accepts the command        *)
(* (Pump) or fails it, and the failure goes to send_response(Err).  c is   *)
(* what the connection has accepted before this send.                      *)
(***************************************************************************)
SendCommand(c, command, sent) ==
    IF sent
        THEN /\ conn' = Append(c, command)
             /\ response_rx' = response_rx
             /\ state' = "Pump"
        ELSE /\ conn' = c
             /\ SendResponseErr

(***************************************************************************)
(* History bookkeeping for delivery: what a sequence of sent messages      *)
(* carries, and whether it carries the effect of an absorbed command.      *)
(***************************************************************************)
IngestedIn(msgs) ==
    UNION {{msgs[i].body[j] : j \in DOMAIN msgs[i].body} :
            i \in {k \in DOMAIN msgs : msgs[k].kind = "IngestSources"}}

CompactedIn(msgs, id) ==
    UNION {{msgs[i].body[j][2] :
                j \in {l \in DOMAIN msgs[i].body : msgs[i].body[l][1] = id}} :
            i \in {k \in DOMAIN msgs : msgs[k].kind = "AllowCompaction"}}

\* the last entry for each id of an IngestSources command is the one installed
InstalledBy(command) ==
    {command.body[j] : j \in
        {k \in DOMAIN command.body :
            \A l \in DOMAIN command.body :
                l > k => command.body[l].id # command.body[k].id}}

Covered(command, msgs) ==
    IF command.kind = "IngestSources"
        THEN InstalledBy(command) \subseteq IngestedIn(msgs)
        ELSE \A j \in DOMAIN command.body :
                LET id == command.body[j][1]
                    frontier == command.body[j][2]
                    installed == id \in {s.id : s \in IngestedIn(msgs)}
                IN  IF frontier = {}
                        THEN ~installed
                        ELSE installed =>
                                \E f \in CompactedIn(msgs, id) :
                                    FrontierLe(frontier, f)

(***************************************************************************)
(* RehydrationTask::step_rehydrate.  A failed reconnect logs, waits for    *)
(* the retry stream and tries again; a successful one is followed by the   *)
(* replay of the command log through send_command.                         *)
(***************************************************************************)
AfterReconnectErr_GiveUp(n) == IF n >= 2 THEN "Done" ELSE "Rehydrate"

\* the state after the n-th consecutive failed reconnect: the loop goes on
AfterReconnectErr(n) == "Rehydrate"

\* a failed reconnect after which the task pumps on the old connection
StepRehydrateErr_Pump ==
    /\ state = "Rehydrate"
    /\ fails < MaxFail
    /\ state' = "Pump"
    /\ tries' = tries + 1
    /\ fails' = fails + 1
    /\ conn' = <<>>
    /\ outcome' = "reconnect_err"
    /\ UNCHANGED <<owner_vars, log_vars, resp_vars, undelivered>>
    /\ UNCHANGED <<ctl_vars, lib_vars>>

StepRehydrateErr ==
    /\ state = "Rehydrate"
    /\ fails < MaxFail
    /\ state' = AfterReconnectErr(tries + 1)
    /\ tries' = tries + 1
    /\ fails' = fails + 1
    /\ conn' = <<>>
    /\ outcome' = "reconnect_err"
    /\ UNCHANGED <<owner_vars, log_vars, resp_vars, undelivered>>
    /\ UNCHANGED <<ctl_vars, lib_vars>>

StepRehydrateOk ==
    /\ state = "Rehydrate"
    /\ \E sent \in BOOLEAN :
        /\ ~sent => fails < MaxFail
        /\ SendCommand(<<>>, Replay(ingestions)[1], sent)
        /\ fails' = IF sent THEN fails ELSE fails + 1
        /\ outcome' = IF sent THEN "replay_ok" ELSE "replay_send_err"
        /\ undelivered' =
            IF sent
                THEN {i \in undelivered :
                        ~Covered(absorbed[i], Replay(ingestions))}
                ELSE undelivered
    /\ tries' = 0
    /\ UNCHANGED <<owner_vars, log_vars, received>>
    /\ UNCHANGED <<ctl_vars, lib_vars>>

(***************************************************************************)
(* RehydrationTask::step_pump, the command branch of the select.           *)
(***************************************************************************)
\* the send first, the absorb only once the transport has accepted it
StepPumpCommand_SendFirst ==
    /\ state = "Pump"
    /\ command_rx # <<>>
    /\ LET command == command_rx_recv(command_rx)[1] IN
        /\ command_rx' = command_rx_recv(command_rx)[2]
        /\ handed' = Append(handed, command)
        /\ \E sent \in BOOLEAN :
            /\ ~sent => fails < MaxFail
            /\ SendCommand(conn, command, sent)
            /\ fails' = IF sent THEN fails ELSE fails + 1
            /\ outcome' = IF sent THEN "send_ok" ELSE "send_err"
            /\ ingestions' = IF sent THEN absorb_command(ingestions, command)
                              ELSE ingestions
            /\ absorbed' = IF sent THEN Append(absorbed, command)
                            ELSE absorbed
            /\ undelivered' = undelivered
    /\ UNCHANGED <<owner_alive, issued, tries, received>>
    /\ UNCHANGED <<ctl_vars, lib_vars>>

StepPumpCommand ==
    /\ state = "Pump"
    /\ command_rx # <<>>
    /\ LET command == command_rx_recv(command_rx)[1] IN
        /\ command_rx' = command_rx_recv(command_rx)[2]
        /\ ingestions' = absorb_command(ingestions, command)
        /\ absorbed' = Append(absorbed, command)
        /\ handed' = Append(handed, command)
        /\ \E sent \in BOOLEAN :
            /\ ~sent => fails < MaxFail
            /\ SendCommand(conn, command, sent)
            /\ fails' = IF sent THEN fails ELSE fails + 1
            /\ outcome' = IF sent THEN "send_ok" ELSE "send_err"
            /\ undelivered' =
                IF sent THEN undelivered
                ELSE undelivered \cup {Len(absorbed) + 1}
    /\ UNCHANGED <<owner_alive, issued, tries, received>>
    /\ UNCHANGED <<ctl_vars, lib_vars>>

StepPumpCommandNone_Eager ==
    /\ state = "Pump"
    /\ ~owner_alive
    /\ state' = "Done"
    /\ outcome' = "cmd_none"
    /\ UNCHANGED <<owner_vars, log_vars, resp_vars, conn, tries, fails,
                   undelivered>>
    /\ UNCHANGED <<ctl_vars, lib_vars>>

\* recv() yields None once the sender is dropped and the queue is drained
StepPumpCommandNone ==
    /\ state = "Pump"
    /\ command_rx = <<>>
    /\ ~owner_alive
    /\ state' = "Done"
    /\ outcome' = "cmd_none"
    /\ UNCHANGED <<owner_vars, log_vars, resp_vars, conn, tries, fails,
                   undelivered>>
    /\ UNCHANGED <<ctl_vars, lib_vars>>

(***************************************************************************)
(* RehydrationTask::step_pump, the response branch of the select:          *)
(* client.recv() yields Some(Ok(response)), Some(Err(e)) or None.          *)
(***************************************************************************)
StepPumpRecvOk ==
    /\ state = "Pump"
    /\ Len(received) < MaxResp
    /\ LET response == Len(received) + 1 IN
        /\ received' = Append(received, response)
        /\ SendResponseOk(response)
    /\ outcome' = "recv_ok"
    /\ UNCHANGED <<owner_vars, log_vars, conn, tries, fails, undelivered>>
    /\ UNCHANGED <<ctl_vars, lib_vars>>

StepPumpRecvErr ==
    /\ state = "Pump"
    /\ fails < MaxFail
    /\ SendResponseErr
    /\ fails' = fails + 1
    /\ outcome' = "recv_err"
    /\ UNCHANGED <<owner_vars, log_vars, received, conn, tries, undelivered>>
    /\ UNCHANGED <<ctl_vars, lib_vars>>

StepPumpRecvNone_Ignore ==
    /\ state = "Pump"
    /\ fails < MaxFail
    /\ fails' = fails + 1
    /\ outcome' = "recv_none"
    /\ UNCHANGED <<state, owner_vars, log_vars, resp_vars, conn, tries,
                   undelivered>>
    /\ UNCHANGED <<ctl_vars, lib_vars>>

StepPumpRecvNone ==
    /\ state = "Pump"
    /\ fails < MaxFail
    /\ SendResponseErr
    /\ fails' = fails + 1
    /\ outcome' = "recv_none"
    /\ UNCHANGED <<owner_vars, log_vars, received, conn, tries, undelivered>>
    /\ UNCHANGED <<ctl_vars, lib_vars>>

Next ==
    \/ Send
    \/ DropClient
    \/ StepRehydrateErr
    \/ StepRehydrateOk
    \/ StepPumpCommand
    \/ StepPumpCommandNone
    \/ StepPumpRecvOk
    \/ StepPumpRecvErr
    \/ StepPumpRecvNone

Spec == Init /\ [][Next]_vars

(***************************************************************************)
(* The task under a scheduler that keeps polling it, with a transport      *)
(* whose reconnect may fail any number of times: beyond the MaxFail        *)
(* failures that are counted, a reconnect can fail again and again.        *)
(***************************************************************************)
RetryReconnect ==
    /\ state = "Rehydrate"
    /\ fails = MaxFail
    /\ state' = AfterReconnectErr(tries + 1)
    /\ conn' = <<>>
    /\ outcome' = IF outcome = "reconnect_err" THEN "reconnect_err_again"
                  ELSE "reconnect_err"
    /\ UNCHANGED <<owner_vars, log_vars, resp_vars, tries, fails,
                   undelivered>>
    /\ UNCHANGED <<ctl_vars, lib_vars>>

\* the steps of the spawned task
TaskNext ==
    \/ StepRehydrateErr
    \/ RetryReconnect
    \/ StepRehydrateOk
    \/ StepPumpCommand
    \/ StepPumpCommandNone
    \/ StepPumpRecvOk
    \/ StepPumpRecvErr
    \/ StepPumpRecvNone

NextLive ==
    \/ Send
    \/ DropClient
    \/ StepRehydrateErr
    \/ RetryReconnect
    \/ StepRehydrateOk
    \/ StepPumpCommand
    \/ StepPumpCommandNone
    \/ StepPumpRecvOk
    \/ StepPumpRecvErr
    \/ StepPumpRecvNone

SpecLive == Init /\ [][NextLive]_vars /\ WF_vars(TaskNext)

TypeOK ==
    /\ state \in {"Rehydrate", "Pump", "Done"}
    /\ owner_alive \in BOOLEAN
    /\ Len(issued) <= MaxCmds
    /\ fails \in 0..MaxFail
    /\ tries \in 0..MaxFail
    /\ \A i \in DOMAIN command_rx : command_rx[i] \in StorageCommand
    /\ \A i \in DOMAIN response_rx : response_rx[i] \in Responses

(***************************************************************************)
(* absorb_command as a function of the command log: every command log      *)
(* (at most one entry per id, keys ascending, each entry filed under its   *)
(* own id) and every sequence of up to MaxAbsorb commands absorbed into it.*)
(***************************************************************************)
Logs ==
    {m \in UNION {[1..n -> Ids \X IngestSourceCommand] :
                    n \in 0..Cardinality(Ids)} :
        /\ \A i \in DOMAIN m : m[i][2].id = m[i][1]
        /\ \A i, j \in DOMAIN m : i < j => m[i][1] < m[j][1]}

InitAbsorb ==
    /\ InitTask
    /\ ingestions \in Logs
    /\ InitController
    /\ InitLib

AbsorbOnly ==
    /\ Len(absorbed) < MaxAbsorb
    /\ \E command \in StorageCommand :
        /\ ingestions' = absorb_command(ingestions, command)
        /\ absorbed' = Append(absorbed, command)
    /\ UNCHANGED <<state, owner_vars, resp_vars, conn, outcome, tries, fails,
                   handed, undelivered>>
    /\ UNCHANGED <<ctl_vars, lib_vars>>

SpecAbsorb == InitAbsorb /\ [][AbsorbOnly]_vars

(***************************************************************************)
(* The active-replication client of a compute instance.  It sits between   *)
(* the controller and the replicas: it reconciles the replicas' frontier   *)
(* reports into one frontier and forwards the first answer to each peek.   *)
(***************************************************************************)
Min(S) == CHOOSE x \in S : \A y \in S : x <= y

Max(S) == CHOOSE x \in S : \A y \in S : y <= x

\* the meet of the per-replica uppers over the current replica set
Meet(st) == Min({st.replica_uppers[r] : r \in st.replicas})

\* forward the change of the reconciled frontier, if it changed
Reconcile(st) ==
    IF st.replicas = {} \/ Meet(st) = st.aggregate THEN st
    ELSE [st EXCEPT
            !.aggregate = Meet(st),
            !.stream = Append(@, FrontierUppers(DataflowId,
                                    ChangeBatch({Meet(st)}, {st.aggregate})))]

\* ActiveReplication::add_replica: the new replica starts at the minimum
AddReplica(st, replica_id) ==
    Reconcile([st EXCEPT !.replicas = @ \cup {replica_id},
                         !.replica_uppers[replica_id] = 0])

\* ActiveReplication::remove_replica
RemoveReplica(st, replica_id) ==
    Reconcile([st EXCEPT !.replicas = @ \ {replica_id}])

\* the first answer to a peek is forwarded and the peek forgotten; an
\* answer to a peek that is not outstanding is discarded
AbsorbPeekResponse_ForwardAll(st, replica_id, uuid) ==
    [st EXCEPT !.answered = @ \cup {<<replica_id, uuid>>},
               !.peeks = @ \ {uuid},
               !.stream = Append(@, PeekResponse(uuid))]

AbsorbPeekResponse(st, replica_id, uuid) ==
    IF uuid \in st.peeks
    THEN [st EXCEPT !.answered = @ \cup {<<replica_id, uuid>>},
                    !.peeks = @ \ {uuid},
                    !.stream = Append(@, PeekResponse(uuid))]
    ELSE [st EXCEPT !.answered = @ \cup {<<replica_id, uuid>>}]

(***************************************************************************)
(* The backends at work.                                                   *)
(***************************************************************************)
\* a replica reports that its upper advanced
ReplicaFrontier(instance, replica_id) ==
    /\ pc # "aborted"
    /\ instance \in DOMAIN compute
    /\ replica_id \in compute[instance].replicas
    /\ compute[instance].replica_uppers[replica_id] < MaxUpper
    /\ steps < MaxSteps
    /\ compute' = [compute EXCEPT ![instance] =
            Reconcile([@ EXCEPT !.replica_uppers[replica_id] = @ + 1])]
    /\ steps' = steps + 1
    /\ UNCHANGED <<stashed_response, storage_controller, orch_req, pc,
                   returned, surfaced, dropped, peeked>>
    /\ UNCHANGED <<task_vars, lib_vars>>

\* ComputeController::peek
Peek(instance, uuid) ==
    /\ Callable
    /\ instance \in DOMAIN compute
    /\ uuid \notin peeked
    /\ compute' = [compute EXCEPT ![instance].peeks = @ \cup {uuid},
                                  ![instance].client_peeks = @ \cup {uuid}]
    /\ peeked' = peeked \cup {uuid}
    /\ pc' = "idle"
    /\ UNCHANGED <<stashed_response, storage_controller, orch_req,
                   returned, surfaced, dropped, steps>>
    /\ UNCHANGED <<task_vars, lib_vars>>

\* a replica answers a peek it has not answered yet
ReplicaPeekResponse(instance, replica_id, uuid) ==
    /\ pc # "aborted"
    /\ instance \in DOMAIN compute
    /\ replica_id \in compute[instance].replicas
    /\ uuid \in peeked
    /\ <<replica_id, uuid>> \notin compute[instance].answered
    /\ steps < MaxSteps
    /\ compute' = [compute EXCEPT ![instance] =
            AbsorbPeekResponse(@, replica_id, uuid)]
    /\ steps' = steps + 1
    /\ UNCHANGED <<stashed_response, storage_controller, orch_req, pc,
                   returned, surfaced, dropped, peeked>>
    /\ UNCHANGED <<task_vars, lib_vars>>

\* the replicas deliver the next batch of a subscribe, or its end
ReplicaTail(instance, dropped_at) ==
    /\ pc # "aborted"
    /\ steps < MaxSteps
    /\ instance \in DOMAIN compute
    /\ compute[instance].replicas # {}
    /\ compute[instance].tail \in 0..(MaxUpper - 1)
    /\ LET lower == compute[instance].tail IN
       compute' = [compute EXCEPT
            ![instance].tail = IF dropped_at THEN -1 ELSE lower + 1,
            ![instance].stream = Append(@,
                IF dropped_at THEN TailDroppedAt(TailId, {lower})
                ELSE TailBatch(TailId, {lower}, {lower + 1}))]
    /\ steps' = steps + 1
    /\ UNCHANGED <<stashed_response, storage_controller, orch_req, pc,
                   returned, surfaced, dropped, peeked>>
    /\ UNCHANGED <<task_vars, lib_vars>>

\* a replica is heard from
Heartbeat(instance, replica_id) ==
    /\ pc # "aborted"
    /\ steps < MaxSteps
    /\ instance \in DOMAIN compute
    /\ replica_id \in compute[instance].replicas
    /\ compute' = [compute EXCEPT ![instance].stream =
            Append(@, ReplicaHeartbeat(replica_id,
                    compute[instance].replica_uppers[replica_id]))]
    /\ steps' = steps + 1
    /\ UNCHANGED <<stashed_response, storage_controller, orch_req, pc,
                   returned, surfaced, dropped, peeked>>
    /\ UNCHANGED <<task_vars, lib_vars>>

\* the replicas of an instance report on a collection the instance does
\* not know
StrayFrontier(instance) ==
    /\ pc # "aborted"
    /\ steps < MaxSteps
    /\ instance \in DOMAIN compute
    /\ compute[instance].replicas # {}
    /\ compute' = [compute EXCEPT ![instance].stream =
            Append(@, FrontierUppers(UnknownCollection,
                                     ChangeBatch({MaxUpper}, {0})))]
    /\ steps' = steps + 1
    /\ UNCHANGED <<stashed_response, storage_controller, orch_req, pc,
                   returned, surfaced, dropped, peeked>>
    /\ UNCHANGED <<task_vars, lib_vars>>

\* the storage layer reports that the upper of its collection advanced
StorageFrontier ==
    /\ pc # "aborted"
    /\ storage_controller.reported < MaxUpper
    /\ steps < MaxSteps
    /\ steps' = steps + 1
    /\ LET old == storage_controller.reported IN
       storage_controller' = [storage_controller EXCEPT
            !.reported = old + 1,
            !.rx = Append(@, FrontierUppers(StorageId,
                                ChangeBatch({old + 1}, {old})))]
    /\ UNCHANGED <<compute, stashed_response, orch_req, pc, returned,
                   surfaced, dropped, peeked>>
    /\ UNCHANGED <<task_vars, lib_vars>>

\* the storage layer answers a request for linearized timestamps
StorageLinearized ==
    /\ pc # "aborted"
    /\ steps < MaxSteps
    /\ storage_controller' = [storage_controller EXCEPT
            !.rx = Append(@, LinearizedTimestamps(0))]
    /\ steps' = steps + 1
    /\ UNCHANGED <<compute, stashed_response, orch_req, pc, returned,
                   surfaced, dropped, peeked>>
    /\ UNCHANGED <<task_vars, lib_vars>>

(***************************************************************************)
(* Controller: the lifecycle of instances and replicas.  A call that       *)
(* panics leaves the controller aborted, with what it had done so far.     *)
(***************************************************************************)
\* a call of ComputeOrchestrator::ensure_service or ::drop_service for the
\* service of a replica, or (replica 0) of an instance
OrchestratorCall(call, instance, replica_id) ==
    [call |-> call, instance |-> instance, replica |-> replica_id]

\* a replica configuration and whether the orchestrator serves the call
\* made for it (a Remote replica needs no call)
ReplicaConfigs ==
    {<<"Remote", TRUE>>, <<"Managed", TRUE>>, <<"Managed", FALSE>>}

\* Controller::create_instance
CreateInstance(instance) ==
    /\ Callable
    /\ steps < MaxSteps
    /\ instance \notin dropped
    /\ compute' = ComputeInsert(compute, instance, ComputeControllerStateNew)
    /\ orch_req' = <<>>
    /\ pc' = "idle"
    /\ steps' = steps + 1
    /\ UNCHANGED <<stashed_response, storage_controller, returned,
                   surfaced, dropped, peeked>>
    /\ UNCHANGED <<task_vars, lib_vars>>

\* add_replica_to_instance asking the orchestrator before it has looked for
\* the instance
AddReplicaToInstance_EnsureFirst(instance_id, replica_id, config, service_ok) ==
    /\ Callable
    /\ steps < MaxSteps
    /\ steps' = steps + 1
    /\ orch_req' = IF config = "Managed"
                   THEN <<OrchestratorCall("ensure_service", instance_id, replica_id)>>
                   ELSE <<>>
    /\ IF config = "Managed" /\ ~service_ok
       THEN /\ pc' = "failed"
            /\ UNCHANGED compute
       ELSE IF instance_id \notin DOMAIN compute
       THEN /\ pc' = "aborted"
            /\ UNCHANGED compute
       ELSE /\ compute' = [compute EXCEPT ![instance_id] =
                    AddReplica(@, replica_id)]
            /\ pc' = "idle"
    /\ UNCHANGED <<stashed_response, storage_controller, returned, surfaced,
                   dropped, peeked>>
    /\ UNCHANGED <<task_vars, lib_vars>>

\* Controller::add_replica_to_instance
AddReplicaToInstance(instance_id, replica_id, config, service_ok) ==
    /\ Callable
    /\ steps < MaxSteps
    /\ steps' = steps + 1
    /\ IF instance_id \notin DOMAIN compute
       THEN /\ pc' = "aborted"
            /\ orch_req' = <<>>
            /\ UNCHANGED compute
       ELSE IF config = "Remote"
       THEN /\ compute' = [compute EXCEPT ![instance_id] =
                    AddReplica(@, replica_id)]
            /\ orch_req' = <<>>
            /\ pc' = "idle"
       ELSE /\ orch_req' =
                    <<OrchestratorCall("ensure_service", instance_id, replica_id)>>
            /\ compute' = IF service_ok
                          THEN [compute EXCEPT ![instance_id] =
                                    AddReplica(@, replica_id)]
                          ELSE compute
            /\ pc' = IF service_ok THEN "idle" ELSE "failed"
    /\ UNCHANGED <<stashed_response, storage_controller, returned, surfaced,
                   dropped, peeked>>
    /\ UNCHANGED <<task_vars, lib_vars>>

\* drop_replica removing the replica before it has asked the orchestrator
DropReplica_RemoveFirst(instance_id, replica_id, config, service_ok) ==
    /\ Callable
    /\ steps < MaxSteps
    /\ steps' = steps + 1
    /\ orch_req' = IF config = "Managed"
                   THEN <<OrchestratorCall("drop_service", instance_id, replica_id)>>
                   ELSE <<>>
    /\ IF instance_id \notin DOMAIN compute
       THEN /\ pc' = "aborted"
            /\ UNCHANGED compute
       ELSE /\ compute' = [compute EXCEPT ![instance_id] =
                    RemoveReplica(@, replica_id)]
            /\ pc' = IF config = "Managed" /\ ~service_ok
                     THEN "failed" ELSE "idle"
    /\ UNCHANGED <<stashed_response, storage_controller, returned, surfaced,
                   dropped, peeked>>
    /\ UNCHANGED <<task_vars, lib_vars>>

\* drop_replica asking the orchestrator whatever the kind of the replica
DropReplica_AlwaysCall(instance_id, replica_id, config, service_ok) ==
    /\ Callable
    /\ steps < MaxSteps
    /\ steps' = steps + 1
    /\ orch_req' = <<OrchestratorCall("drop_service", instance_id, replica_id)>>
    /\ IF ~service_ok
       THEN /\ pc' = "failed"
            /\ UNCHANGED compute
       ELSE IF instance_id \notin DOMAIN compute
       THEN /\ pc' = "aborted"
            /\ UNCHANGED compute
       ELSE /\ compute' = [compute EXCEPT ![instance_id] =
                    RemoveReplica(@, replica_id)]
            /\ pc' = "idle"
    /\ UNCHANGED <<stashed_response, storage_controller, returned, surfaced,
                   dropped, peeked>>
    /\ UNCHANGED <<task_vars, lib_vars>>

\* Controller::drop_replica
DropReplica(instance_id, replica_id, config, service_ok) ==
    /\ Callable
    /\ steps < MaxSteps
    /\ steps' = steps + 1
    /\ orch_req' = IF config = "Managed"
                   THEN <<OrchestratorCall("drop_service", instance_id, replica_id)>>
                   ELSE <<>>
    /\ IF config = "Managed" /\ ~service_ok
       THEN /\ pc' = "failed"
            /\ UNCHANGED compute
       ELSE IF instance_id \notin DOMAIN compute
       THEN /\ pc' = "aborted"
            /\ UNCHANGED compute
       ELSE /\ compute' = [compute EXCEPT ![instance_id] =
                    RemoveReplica(@, replica_id)]
            /\ pc' = "idle"
    /\ UNCHANGED <<stashed_response, storage_controller, returned, surfaced,
                   dropped, peeked>>
    /\ UNCHANGED <<task_vars, lib_vars>>

\* drop_instance asking the orchestrator before it has looked for the
\* instance
DropInstance_CallFirst(instance, service_ok) ==
    /\ Callable
    /\ steps < MaxSteps
    /\ steps' = steps + 1
    /\ orch_req' = <<OrchestratorCall("drop_service", instance, 0)>>
    /\ IF instance \notin DOMAIN compute
       THEN /\ pc' = IF service_ok THEN "idle" ELSE "failed"
            /\ UNCHANGED <<compute, dropped>>
       ELSE /\ compute' = ComputeRemove(compute, instance)
            /\ dropped' = dropped \cup {instance}
            /\ pc' = IF compute[instance].replicas # {} THEN "aborted"
                     ELSE IF service_ok THEN "idle" ELSE "failed"
    /\ UNCHANGED <<stashed_response, storage_controller, returned, surfaced,
                   peeked>>
    /\ UNCHANGED <<task_vars, lib_vars>>

\* Controller::drop_instance
DropInstance(instance, service_ok) ==
    /\ Callable
    /\ steps < MaxSteps
    /\ steps' = steps + 1
    /\ IF instance \notin DOMAIN compute
       THEN /\ orch_req' = <<>>
            /\ pc' = "idle"
            /\ UNCHANGED <<compute, dropped>>
       ELSE /\ compute' = ComputeRemove(compute, instance)
            /\ dropped' = dropped \cup {instance}
            /\ IF compute[instance].replicas # {}
               THEN /\ pc' = "aborted"
                    /\ orch_req' = <<>>
               ELSE /\ orch_req' = <<OrchestratorCall("drop_service", instance, 0)>>
                    /\ pc' = IF service_ok THEN "idle" ELSE "failed"
    /\ UNCHANGED <<stashed_response, storage_controller, returned, surfaced,
                   peeked>>
    /\ UNCHANGED <<task_vars, lib_vars>>

(***************************************************************************)
(* Controller::ready.  The call returns at once when a response is         *)
(* stashed; otherwise its future waits on the streams of all instances and *)
(* on the storage controller, and may be dropped while it waits.           *)
(***************************************************************************)
\* does a call of ready() have to wait
ReadyWaits_Always(stashed) == TRUE

ReadyWaits(stashed) == stashed = <<>>

CallReady ==
    /\ Callable
    /\ pc' = IF ReadyWaits(stashed_response) THEN "ready"
             ELSE "ready_immediate"
    /\ UNCHANGED <<compute, stashed_response, storage_controller, orch_req,
                   returned, surfaced, dropped, peeked, steps>>
    /\ UNCHANGED <<task_vars, lib_vars>>

\* the branch of the select on compute_stream.next()
ReadyCompute(instance) ==
    /\ pc = "ready"
    /\ instance \in DOMAIN compute
    /\ compute[instance].stream # <<>>
    /\ IF stashed_response # <<>>
       THEN /\ pc' = "aborted"
            /\ UNCHANGED stashed_response
       ELSE /\ stashed_response' =
                    <<UnderlyingCompute(instance, Head(compute[instance].stream))>>
            /\ pc' = "ready_done"
    /\ compute' = [compute EXCEPT ![instance].stream = Tail(@)]
    /\ UNCHANGED <<storage_controller, orch_req, returned, surfaced, dropped,
                   peeked, steps>>
    /\ UNCHANGED <<task_vars, lib_vars>>

\* the branch of the select on storage_controller.recv()
ReadyStorage ==
    /\ pc = "ready"
    /\ storage_controller.rx # <<>>
    /\ IF stashed_response # <<>>
       THEN /\ pc' = "aborted"
            /\ UNCHANGED stashed_response
       ELSE /\ stashed_response' =
                    <<UnderlyingStorage(Head(storage_controller.rx))>>
            /\ pc' = "ready_done"
    /\ storage_controller' = [storage_controller EXCEPT !.rx = Tail(@)]
    /\ UNCHANGED <<compute, orch_req, returned, surfaced, dropped, peeked,
                   steps>>
    /\ UNCHANGED <<task_vars, lib_vars>>

\* what dropping the future of ready() takes from a stream it polled:
\* nothing, the underlying clients being cancel-safe
CancelledStream_LoseHead(stream) ==
    IF stream = <<>> THEN stream ELSE Tail(stream)

CancelledStream(stream) == stream

\* the caller drops the future of ready() before it completes
CancelReady ==
    /\ pc = "ready"
    /\ pc' = "cancelled"
    /\ compute' = [i \in DOMAIN compute |->
            [compute[i] EXCEPT !.stream = CancelledStream(@)]]
    /\ storage_controller' = [storage_controller EXCEPT
            !.rx = CancelledStream(@)]
    /\ UNCHANGED <<stashed_response, orch_req, returned, surfaced, dropped,
                   peeked, steps>>
    /\ UNCHANGED <<task_vars, lib_vars>>

(***************************************************************************)
(* Controller::process                                                     *)
(***************************************************************************)
\* the changes process() reads from a response
ResponseChanges_Swap(response) ==
    ChangeBatch(response.lower, response.upper)

ResponseChanges(response) ==
    IF response.kind = "TailDroppedAt"
    THEN ChangeBatch({}, response.lower)
    ELSE ChangeBatch(response.upper, response.lower)

\* ComputeControllerState::update_write_frontiers
UpdateWriteFrontiers(st, id, changes) ==
    [st EXCEPT !.uppers[id] = UpdateIter(@, changes.plus, changes.minus)]

\* StorageController::update_write_frontiers
StorageUpdateWriteFrontiers(st, changes) ==
    [st EXCEPT !.uppers = UpdateIter(@, changes.plus, changes.minus)]

\* ComputeControllerState::remove_peeks
RemovePeeks(st, uuid) == [st EXCEPT !.client_peeks = @ \ {uuid}]

\* whether the update process() makes for what is in the stash returns an
\* error: the instance is there and does not know the collection
UpdateFails(stashed) ==
    /\ stashed # <<>>
    /\ stashed[1].source = "Compute"
    /\ stashed[1].instance \in DOMAIN compute
    /\ stashed[1].response.kind
            \in {"FrontierUppers", "TailBatch", "TailDroppedAt"}
    /\ stashed[1].response.id \notin CollectionIds

\* Option::take on the stash
StashTake_Keep(stashed) == stashed

StashTake(stashed) == <<>>

\* what process() returns for a response: None for FrontierUppers, the
\* response as a ControllerResponse for the others
ProcessEvent_Surface(response) == response

ProcessEvent_DropHeartbeat(response) ==
    IF response.kind \in {"FrontierUppers", "ReplicaHeartbeat"}
    THEN NoEvent
    ELSE response

ProcessEvent(response) ==
    IF response.kind = "FrontierUppers" THEN NoEvent ELSE response

\* the count of surfaced PeekResponse events after process() returned event
Surface(counts, event) ==
    IF event.kind = "PeekResponse"
    THEN [counts EXCEPT ![event.tag] = @ + 1]
    ELSE counts

Process ==
    /\ Callable
    /\ ~UpdateFails(stashed_response)
    /\ stashed_response' = StashTake(stashed_response)
    /\ IF stashed_response = <<>>
       THEN /\ pc' = "aborted"
            /\ UNCHANGED <<compute, storage_controller, returned, surfaced>>
       ELSE LET stashed == stashed_response[1]
                response == stashed.response
                instance == stashed.instance
                event == ProcessEvent(response)
            IN  IF stashed.source = "Storage"
                THEN /\ storage_controller' =
                            IF response.kind = "FrontierUppers"
                            THEN StorageUpdateWriteFrontiers(storage_controller,
                                    ResponseChanges(response))
                            ELSE storage_controller
                     /\ returned' = <<event>>
                     /\ surfaced' = Surface(surfaced, event)
                     /\ pc' = "idle"
                     /\ UNCHANGED compute
                ELSE IF response.kind = "ReplicaHeartbeat"
                THEN /\ returned' = <<event>>
                     /\ surfaced' = Surface(surfaced, event)
                     /\ pc' = "idle"
                     /\ UNCHANGED <<compute, storage_controller>>
                ELSE IF instance \notin DOMAIN compute
                THEN /\ pc' = "aborted"
                     /\ UNCHANGED <<compute, storage_controller, returned,
                                    surfaced>>
                ELSE /\ compute' = [compute EXCEPT ![instance] =
                            IF response.kind = "PeekResponse"
                            THEN RemovePeeks(@, response.tag)
                            ELSE UpdateWriteFrontiers(@, response.id,
                                    ResponseChanges(response))]
                     /\ returned' = <<event>>
                     /\ surfaced' = Surface(surfaced, event)
                     /\ pc' = "idle"
                     /\ UNCHANGED storage_controller
    /\ UNCHANGED <<orch_req, dropped, peeked, steps>>
    /\ UNCHANGED <<task_vars, lib_vars>>

\* process() with the stash put back when the update fails
ProcessErr_Restash ==
    /\ Callable
    /\ UpdateFails(stashed_response)
    /\ pc' = "process_failed"
    /\ returned' = <<>>
    /\ UNCHANGED <<stashed_response, compute, storage_controller, surfaced,
                   orch_req, dropped, peeked, steps>>
    /\ UNCHANGED <<task_vars, lib_vars>>

\* Controller::process when update_write_frontiers or remove_peeks returns
\* an error: the `?` returns it, after the take() of the stash
ProcessErr ==
    /\ Callable
    /\ UpdateFails(stashed_response)
    /\ stashed_response' = StashTake(stashed_response)
    /\ pc' = "process_failed"
    /\ returned' = <<>>
    /\ UNCHANGED <<compute, storage_controller, surfaced, orch_req, dropped,
                   peeked, steps>>
    /\ UNCHANGED <<task_vars, lib_vars>>

NextController ==
    \/ \E instance \in ComputeInstanceIds : CreateInstance(instance)
    \/ \E instance \in ComputeInstanceIds, replica_id \in ReplicaIds,
          config \in ReplicaConfigs :
            AddReplicaToInstance(instance, replica_id, config[1], config[2])
    \/ \E instance \in ComputeInstanceIds, replica_id \in ReplicaIds,
          config \in ReplicaConfigs :
            DropReplica(instance, replica_id, config[1], config[2])
    \/ \E instance \in ComputeInstanceIds, service_ok \in BOOLEAN :
            DropInstance(instance, service_ok)
    \/ CallReady
    \/ \E instance \in ComputeInstanceIds : ReadyCompute(instance)
    \/ ReadyStorage
    \/ CancelReady
    \/ Process
    \/ ProcessErr
    \/ \E instance \in ComputeInstanceIds, uuid \in Uuids : Peek(instance, uuid)
    \/ \E instance \in ComputeInstanceIds, replica_id \in ReplicaIds :
            ReplicaFrontier(instance, replica_id)
    \/ \E instance \in ComputeInstanceIds, replica_id \in ReplicaIds,
          uuid \in Uuids : ReplicaPeekResponse(instance, replica_id, uuid)
    \/ \E instance \in ComputeInstanceIds, dropped_at \in BOOLEAN :
            ReplicaTail(instance, dropped_at)
    \/ \E instance \in ComputeInstanceIds, replica_id \in ReplicaIds :
            Heartbeat(instance, replica_id)
    \/ \E instance \in ComputeInstanceIds : StrayFrontier(instance)
    \/ StorageFrontier
    \/ StorageLinearized

SpecController == Init /\ [][NextController]_vars

(***************************************************************************)
(* The names of the services the orchestrator reports, and what            *)
(* translate_event makes of each with parse_replica_service_name.          *)
(***************************************************************************)
ServiceIds == {0, 7, 10}

\* one more than u64::MAX
U64Overflow == Append(SubSeq(U64MaxDigits, 1, Len(U64MaxDigits) - 1), "6")

\* names of services that generate_replica_service_name did not make: the
\* empty name, the service of an instance, ids with leading zeros, an id
\* beyond u64 in its last digit or in its length, a digit outside ASCII
ForeignNames ==
    { <<>>,
      ClusterPrefix \o <<"1">>,
      ClusterPrefix \o <<"0", "0", "7">> \o ReplicaInfix \o <<"0", "1">>,
      ClusterPrefix \o U64Overflow \o ReplicaInfix \o <<"1">>,
      ClusterPrefix \o <<"1">> \o ReplicaInfix \o U64MaxDigits \o <<"0">>,
      ClusterPrefix \o <<ArabicIndicThree>> \o ReplicaInfix \o <<"1">> }

EditChars == {"0", "-", "x", ArabicIndicThree}

\* an instance's replica gets its service
GenerateName(instance_id, replica_id) ==
    /\ service_name' = generate_replica_service_name(instance_id, replica_id)
    /\ origin' = "generated"
    /\ generated' = <<instance_id, replica_id>>
    /\ parsed' = NotParsed
    /\ edits' = 0
    /\ UNCHANGED <<size_name, size_config, since, compaction_call,
                   compaction_result>>
    /\ UNCHANGED <<task_vars, ctl_vars, watch_vars>>

\* the orchestrator reports a service of another name
ReceiveName(name) ==
    /\ service_name' = name
    /\ origin' = "received"
    /\ generated' = <<>>
    /\ parsed' = NotParsed
    /\ edits' = 0
    /\ UNCHANGED <<size_name, size_config, since, compaction_call,
                   compaction_result>>
    /\ UNCHANGED <<task_vars, ctl_vars, watch_vars>>

\* the reported name differs from a generated one in one place
EditName(kind, at, c) ==
    /\ origin \in {"generated", "edited"}
    /\ edits < MaxEdits
    /\ at \in 1..Len(service_name)
    /\ service_name' =
        CASE kind = "replace" -> [service_name EXCEPT ![at] = c]
          [] kind = "insert" ->
                SubSeq(service_name, 1, at) \o <<c>> \o Drop(service_name, at)
          [] kind = "delete" ->
                SubSeq(service_name, 1, at - 1) \o Drop(service_name, at)
    /\ service_name' # service_name
    /\ origin' = "edited"
    /\ generated' = <<>>
    /\ parsed' = NotParsed
    /\ edits' = edits + 1
    /\ UNCHANGED <<size_name, size_config, since, compaction_call,
                   compaction_result>>
    /\ UNCHANGED <<task_vars, ctl_vars, watch_vars>>

\* translate_event's call of parse_replica_service_name
ParseName ==
    /\ origin # "none"
    /\ parsed = NotParsed
    /\ parsed' = parse_replica_service_name(service_name)
    /\ UNCHANGED <<service_name, origin, generated, edits, size_name,
                   size_config, since, compaction_call, compaction_result>>
    /\ UNCHANGED <<task_vars, ctl_vars, watch_vars>>

NextCodec ==
    \/ \E instance_id \in ServiceIds, replica_id \in ServiceIds :
            GenerateName(instance_id, replica_id)
    \/ \E name \in ForeignNames : ReceiveName(name)
    \/ \E kind \in {"replace", "insert", "delete"},
          at \in 1..Len(service_name), c \in EditChars :
            EditName(kind, at, c)
    \/ ParseName

SpecCodec == Init /\ [][NextCodec]_vars

(***************************************************************************)
(* Controller::watch_compute_services: the stream of the orchestrator's    *)
(* watch_services, mapped through translate_event and filtered.            *)
(***************************************************************************)
MaxEvents == 3

\* Result<ServiceEvent, anyhow::Error>, the items of watch_services
ServiceEvent(service_id, process_id, status, time) ==
    [ok |-> TRUE, service_id |-> service_id, process_id |-> process_id,
     status |-> status, time |-> time]

ServiceError == [ok |-> FALSE, service_id |-> <<>>, process_id |-> 0,
                 status |-> "", time |-> 0]

ComputeInstanceEvent(instance_id, replica_id, process_id, status, time) ==
    [instance_id |-> instance_id, replica_id |-> replica_id,
     process_id |-> process_id, status |-> status, time |-> time]

\* the services of the orchestrator's namespace: two replicas, an instance,
\* and a service numbered beyond u64
WatchedNames ==
    { generate_replica_service_name(7, 10),
      generate_replica_service_name(0, 0),
      ClusterPrefix \o <<"1">>,
      ClusterPrefix \o U64Overflow \o ReplicaInfix \o <<"1">> }

\* the items the orchestrator can produce as its next one
ServiceItems(time) ==
    {ServiceError} \cup
    {ServiceEvent(name, process_id, status, time) :
        name \in WatchedNames, process_id \in {0, 1},
        status \in {"Ready", "NotReady"}}

\* one item of the orchestrator's stream goes through
\* event.and_then(translate_event) and the filter_map
WatchNext(item) ==
    /\ watch_pc = "open"
    /\ Len(service_events) < MaxEvents
    /\ service_events' = Append(service_events, item)
    /\ IF ~item.ok
       THEN UNCHANGED <<instance_events, watch_pc>>
       ELSE LET name == parse_replica_service_name(item.service_id)
            IN  IF name.kind = "panic"
                THEN /\ watch_pc' = "panicked"
                     /\ UNCHANGED instance_events
                ELSE IF name.kind = "invalid service name"
                THEN UNCHANGED <<instance_events, watch_pc>>
                ELSE /\ instance_events' = Append(instance_events,
                            ComputeInstanceEvent(name.instance_id,
                                name.replica_id, item.process_id,
                                item.status, item.time))
                     /\ UNCHANGED watch_pc
    /\ UNCHANGED <<service_name, origin, generated, parsed, edits, size_name,
                   size_config, since, compaction_call, compaction_result>>
    /\ UNCHANGED <<task_vars, ctl_vars>>

NextWatch == \E item \in ServiceItems(Len(service_events)) : WatchNext(item)

SpecWatch == Init /\ [][NextWatch]_vars

(***************************************************************************)
(* Looking a size name up in the default size map.                         *)
(***************************************************************************)
SizeNames ==
    {to_string(n) : n \in 0..MaxWorkers}
        \cup {ScaledName(scale, workers) :
                scale \in 0..MaxScale, workers \in 0..MaxScale}

LookupSize(name) ==
    /\ size_name' = name
    /\ size_config' = MapGet(ClusterReplicaSizeMapDefault, name)
    /\ UNCHANGED <<service_name, origin, generated, parsed, edits, since,
                   compaction_call, compaction_result>>
    /\ UNCHANGED <<task_vars, ctl_vars, watch_vars>>

NextSizes == \E name \in SizeNames : LookupSize(name)

SpecSizes == Init /\ [][NextSizes]_vars

(***************************************************************************)
(* allow_compaction of a compute instance.                                 *)
(***************************************************************************)
\* a validation that lets every request pass
ValidCompaction_Always(ids, frontier) == TRUE

\* every id is known, no since goes backward, and no since of a dataflow
\* gets beyond the since of one of its inputs
ValidCompaction(ids, frontier) ==
    \A id \in ids :
        /\ id \in DOMAIN since
        /\ FrontierLe(since[id], frontier)
        /\ \A input \in Inputs(id) :
                input \in ids \/ FrontierLe(frontier, since[input])

ComputeAllowCompaction(ids, frontier) ==
    /\ compaction_call' = <<ids, frontier>>
    /\ IF ValidCompaction(ids, frontier)
       THEN /\ since' = [id \in DOMAIN since |->
                            IF id \in ids THEN frontier ELSE since[id]]
            /\ compaction_result' = "ok"
       ELSE /\ compaction_result' = "validation_error"
            /\ UNCHANGED since
    /\ UNCHANGED <<service_name, origin, generated, parsed, edits, size_name,
                   size_config>>
    /\ UNCHANGED <<task_vars, ctl_vars, watch_vars>>

NextCompaction ==
    \E ids \in (SUBSET (CompactionIds \cup {UnknownId})) \ {{}},
       frontier \in SinceFrontiers :
        ComputeAllowCompaction(ids, frontier)

SpecCompaction == Init /\ [][NextCompaction]_vars

(***************************************************************************)
(* Reading the history of absorbed commands.                               *)
(***************************************************************************)
Last(h) == h[Len(h)]

\* the index of the last command of h that installs id, 0 if none does
LastInstall(h, id) ==
    Max({0} \cup {k \in DOMAIN h :
                    /\ h[k].kind = "IngestSources"
                    /\ \E j \in DOMAIN h[k].body : h[k].body[j].id = id})

\* the index of the last command of h that closes id, 0 if none does
LastClose(h, id) ==
    Max({0} \cup {k \in DOMAIN h :
                    /\ h[k].kind = "AllowCompaction"
                    /\ \E j \in DOMAIN h[k].body : h[k].body[j] = <<id, {}>>})

LiveIds(h) == {id \in Ids : LastInstall(h, id) > LastClose(h, id)}

LiveSpec(h, id) ==
    CHOOSE s \in InstalledBy(h[LastInstall(h, id)]) : s.id = id

LiveSpecs(h) == {LiveSpec(h, id) : id \in LiveIds(h)}

\* the non-empty frontiers absorbed for id since it was last closed
AbsorbedSinces(h, id) ==
    CompactedIn(SubSeq(h, LastClose(h, id) + 1, Len(h)), id) \ {{}}

JoinAll(fs) == IF {} \in fs THEN {} ELSE {Max(UNION fs)}

\* the since the command log holds for id: the one its replay carries
RecordedSince(m, id) ==
    IF CompactedIn(Replay(m), id) = {} THEN MinFrontier
    ELSE JoinAll(CompactedIn(Replay(m), id))

RangeOf(q) == {q[i] : i \in DOMAIN q}

(***************************************************************************)
(* Claims                                                                  *)
(***************************************************************************)

\* C1: when a rehydration has just completed (reconnect succeeded, the
\* replay was sent, the task is in Pump), the new connection has received
\* exactly two messages: the synthetic IngestSources holding every spec of
\* the command log, then an AllowCompaction holding the recorded since of
\* those specs.  Stated for the logs that hold a compacted spec.
C1_ReplayIngestThenCompaction ==
    (/\ state = "Pump"
     /\ outcome = "replay_ok"
     /\ \E id \in BTreeMapKeys(ingestions) : AbsorbedSinces(absorbed, id) # {})
    => /\ Len(conn) = 2
       /\ conn[1] = IngestSources(BTreeMapValues(ingestions))
       /\ conn[2].kind = "AllowCompaction"
       /\ \A id \in BTreeMapKeys(ingestions) :
            AbsorbedSinces(absorbed, id) # {}
                => <<id, JoinAll(AbsorbedSinces(absorbed, id))>>
                        \in RangeOf(conn[2].body)

\* C2: the specs replayed by a completed rehydration are exactly the live
\* specs of the absorbed history: one spec for every id installed and not
\* closed afterwards, the most recently installed one, and nothing else;
\* every connection starts with that replay.
C2_ReplayIsLiveSet ==
    /\ conn # <<>> => conn[1].kind = "IngestSources"
    /\ (state = "Pump" /\ outcome = "replay_ok")
        => /\ conn = <<IngestSources(conn[1].body)>>
           /\ RangeOf(conn[1].body) = LiveSpecs(absorbed)
           /\ Len(conn[1].body) = Cardinality(LiveIds(absorbed))

C2_Witness ==
    /\ state = "Pump"
    /\ outcome = "replay_ok"
    /\ fails >= 1
    /\ Len(absorbed) = 2
    /\ LiveIds(absorbed) # {}
    /\ \E id \in Ids : 0 < LastInstall(absorbed, id)
                        /\ LastInstall(absorbed, id) < LastClose(absorbed, id)

\* C3: at-least-once delivery: whenever the task is in Pump (the last
\* reconnect and the last send succeeded), every command it absorbed has had
\* its effect carried by a successful send, its own or a later replay.
C3_AtLeastOnce == state = "Pump" => undelivered = {}

\* C4: the task leaves Pump for Rehydrate exactly on a send error, a recv
\* error or a recv None.
C4_PumpToRehydrate ==
    [][state = "Pump"
        => ((state' = "Rehydrate")
                <=> (outcome' \in {"send_err", "recv_err", "recv_none"}))]_vars

C4_Witness ==
    /\ state = "Rehydrate"
    /\ outcome = "recv_none"
    /\ undelivered # {}

\* C5: the response channel carries only responses the transport returned
\* as Ok, in the order it returned them, and a step that observes a
\* transport failure puts nothing on it.
C5_OnlyOkResponsesUpstream ==
    /\ [](/\ Len(response_rx) <= Len(received)
          /\ \A i \in DOMAIN response_rx :
                response_rx[i] = received[i] /\ response_rx[i] \in Responses)
    /\ [][fails' > fails => response_rx' = response_rx]_vars

C5_Witness ==
    /\ Len(response_rx) >= 1
    /\ fails = MaxFail
    /\ outcome \in {"recv_err", "recv_none", "send_err"}

\* C6: from Rehydrate the task goes only to Rehydrate or, after a reconnect
\* that succeeded and a replay that was sent, to Pump; a failed reconnect
\* leaves it in Rehydrate, however many came before, and in Rehydrate a
\* further reconnect attempt is always possible.
C6_RehydrateRetries ==
    /\ [][state = "Rehydrate"
            => /\ state' \in {"Rehydrate", "Pump"}
               /\ state' = "Pump" => outcome' = "replay_ok"
               /\ tries' > tries => state' = "Rehydrate"]_vars
    /\ [](state = "Rehydrate" => ENABLED StepRehydrateOk)

C6_Witness ==
    /\ state = "Rehydrate"
    /\ outcome = "reconnect_err"
    /\ tries >= 2

\* C7: in Pump the command branch yields Done exactly when the owner has
\* dropped the channel and every queued command has been taken, and it can
\* always be taken then; once that holds the task's next step leaves Pump,
\* for Done or, when the step observes a transport failure, for Rehydrate;
\* from Done the task does nothing: no step changes the connection, the
\* response channel, the command log or the queue.
C7_DoneOnCloseAndTerminal ==
    /\ [][(state = "Pump" /\ outcome' = "cmd_none")
            => (state' = "Done" /\ ~owner_alive /\ command_rx = <<>>)]_vars
    /\ []((state = "Pump" /\ ~owner_alive /\ command_rx = <<>>)
            => ENABLED StepPumpCommandNone)
    /\ [][(state = "Pump" /\ ~owner_alive /\ command_rx = <<>>)
            => \/ state' = "Done"
               \/ state' = "Rehydrate" /\ fails' > fails]_vars
    /\ [][state = "Done"
            => (state' = "Done"
                /\ UNCHANGED <<conn, response_rx, ingestions, command_rx,
                               handed, received, tries, fails>>)]_vars

C7_Witness ==
    /\ state = "Done"
    /\ outcome = "cmd_none"
    /\ Len(absorbed) = MaxCmds

\* C8: the owner's commands reach client.send in the order send() issued
\* them: what was handed to the transport is a prefix of what was issued,
\* and what a connection has accepted after its replay is a run of
\* consecutive handed commands.
C8_CommandsInIssueOrder ==
    /\ Len(handed) <= Len(issued)
    /\ \A i \in DOMAIN handed : handed[i] = issued[i]
    /\ conn # <<>>
        => \E k \in 0..Len(handed) :
            /\ k + Len(conn) - 1 <= Len(handed)
            /\ Tail(conn) = SubSeq(handed, k + 1, k + Len(conn) - 1)

C8_Witness ==
    /\ Len(handed) = 2
    /\ handed[1] # handed[2]
    /\ fails >= 1
    /\ Len(conn) = 3

\* C9: absorbing AllowCompaction(frontiers) removes the spec of every id
\* given an empty frontier, and for an id of the log given only non-empty
\* frontiers keeps the spec and moves its recorded since to the join of the
\* previous since and those frontiers.
C9_AbsorbAllowCompaction ==
    [][\A command \in StorageCommand :
        (command.kind = "AllowCompaction"
         /\ absorbed' = Append(absorbed, command))
        => \A id \in Ids :
            LET fs == CompactedIn(<<command>>, id) IN
            /\ {} \in fs => id \notin BTreeMapKeys(ingestions')
            /\ (fs # {} /\ {} \notin fs /\ id \in BTreeMapKeys(ingestions))
                => /\ id \in BTreeMapKeys(ingestions')
                   /\ RecordedSince(ingestions', id)
                        = Join(RecordedSince(ingestions, id), JoinAll(fs))]_vars

\* C10: absorbing the IngestSources command that was absorbed last leaves
\* the command log as it is, with one entry per id.
C10_AbsorbIdempotent ==
    [][\A command \in StorageCommand :
        (/\ command.kind = "IngestSources"
         /\ absorbed # <<>>
         /\ Last(absorbed) = command
         /\ absorbed' = Append(absorbed, command))
        => /\ ingestions' = ingestions
           /\ Len(ingestions') = Cardinality(BTreeMapKeys(ingestions'))]_vars

C10_Witness ==
    /\ Len(absorbed) = 2
    /\ absorbed[1] = absorbed[2]
    /\ absorbed[1].kind = "IngestSources"
    /\ Len(ingestions) = 2

\* C11: compaction join law on the command log: from every command log,
\* absorbing AllowCompaction(c, f1) and then AllowCompaction(c, f2) gives
\* the command log, and so the replay, that absorbing
\* AllowCompaction(c, join(f1, f2)) gives.
C11_CompactionJoin ==
    [][\A c \in Ids : \A f1, f2 \in Frontiers :
        absorbed' = Append(absorbed, AllowCompaction(<<<<c, f1>>>>))
        => LET twice == absorb_command(ingestions',
                                       AllowCompaction(<<<<c, f2>>>>))
               joined == absorb_command(ingestions,
                            AllowCompaction(<<<<c, Join(f1, f2)>>>>))
           IN  twice = joined /\ Replay(twice) = Replay(joined)]_vars

C11_Witness ==
    /\ Len(absorbed) = 2
    /\ \E c \in BTreeMapKeys(ingestions) :
        /\ absorbed[1] = AllowCompaction(<<<<c, {1}>>>>)
        /\ absorbed[2] = AllowCompaction(<<<<c, {2}>>>>)
    /\ Len(ingestions) = 2

\* C12: a command is absorbed before its send is attempted: every command
\* handed to client.send is in the absorbed history, and the step that
\* hands it over leaves the command log with the command absorbed, also
\* when the send fails; the replay that completes the next rehydration is
\* the replay of that log.
C12_AbsorbBeforeSend ==
    /\ [](/\ Len(handed) <= Len(absorbed)
          /\ \A i \in DOMAIN handed : handed[i] = absorbed[i])
    /\ [][handed' # handed
            => /\ absorbed' = handed'
               /\ ingestions' = absorb_command(ingestions, Last(handed'))]_vars
    /\ [][(state = "Rehydrate" /\ state' = "Pump")
            => conn' = Replay(ingestions)]_vars

C12_Witness ==
    /\ state = "Pump"
    /\ outcome = "replay_ok"
    /\ undelivered = {}
    /\ fails = 1
    /\ handed # <<>>
    /\ Last(handed).kind = "IngestSources"
    /\ Len(conn) = 1
    /\ InstalledBy(Last(handed)) \subseteq RangeOf(conn[1].body)

(***************************************************************************)
(* Claims about Controller::ready and Controller::process.                 *)
(***************************************************************************)
\* the responses the backends hold ready for the controller
Pending ==
    [compute |-> [i \in DOMAIN compute |-> compute[i].stream],
     storage |-> storage_controller.rx]

\* C13: ready() is cancel-safe.  Calling ready() and dropping its future
\* leaves the stash, the pending responses of every backend and all other
\* controller state as they were, so a cancelled call is as if it had never
\* been made; and a ready() that completes stashes the oldest pending
\* response of one backend and removes exactly that response, so nothing
\* is lost, duplicated or reordered whatever the number of cancelled calls.
C13_ReadyCancelSafe ==
    [][/\ ((Callable /\ pc' = "ready") \/ (pc = "ready" /\ pc' = "cancelled"))
            => /\ compute' = compute
               /\ storage_controller' = storage_controller
               /\ stashed_response' = stashed_response
               /\ stashed_response = <<>>
               /\ returned' = returned
       /\ (pc = "ready" /\ pc' = "ready_done")
            => \/ \E i \in DOMAIN compute :
                    /\ compute[i].stream # <<>>
                    /\ stashed_response' =
                            <<UnderlyingCompute(i, Head(compute[i].stream))>>
                    /\ compute' = [compute EXCEPT ![i].stream = Tail(@)]
                    /\ storage_controller' = storage_controller
               \/ /\ storage_controller.rx # <<>>
                  /\ stashed_response' =
                            <<UnderlyingStorage(Head(storage_controller.rx))>>
                  /\ storage_controller' =
                            [storage_controller EXCEPT !.rx = Tail(@)]
                  /\ compute' = compute]_vars

\* a future of ready() has been dropped while the storage layer and a
\* compute instance both held a response ready
C13_Witness ==
    /\ pc = "cancelled"
    /\ stashed_response = <<>>
    /\ storage_controller.rx # <<>>
    /\ \E i \in DOMAIN compute : compute[i].stream # <<>>

\* C14: while a response is stashed, ready() returns at once, takes nothing
\* from any backend and leaves the stash as it is; a future of ready()
\* waits only while the stash is empty, and a stashed response is never
\* replaced by another one: the stash changes only by being emptied.
C14_StashedReadyReturnsAtOnce ==
    /\ [](pc = "ready" => stashed_response = <<>>)
    /\ [][(CallReady /\ stashed_response # <<>>)
            => /\ pc' = "ready_immediate"
               /\ stashed_response' = stashed_response
               /\ Pending' = Pending]_vars
    /\ [][stashed_response # <<>>
            => stashed_response' \in {stashed_response, <<>>}]_vars

\* ready() has returned at once on a stashed response while another
\* response was pending
C14_Witness ==
    /\ pc = "ready_immediate"
    /\ stashed_response # <<>>
    /\ \/ storage_controller.rx # <<>>
       \/ \E i \in DOMAIN compute : compute[i].stream # <<>>

\* C15: process() takes the stashed response and leaves the stash empty,
\* returning the event of that very response (or aborting on a reference to
\* an absent instance); nothing but process(), returning an event or the
\* error of its update, empties the stash, so a response is processed once.  Called with an empty stash, process() aborts the
\* controller and returns nothing.
C15_ProcessDrainsStash ==
    /\ [][Process =>
            IF stashed_response = <<>>
            THEN /\ pc' = "aborted"
                 /\ returned' = returned
                 /\ stashed_response' = <<>>
            ELSE /\ stashed_response' = <<>>
                 /\ \/ pc' = "aborted" /\ returned' = returned
                    \/ /\ pc' = "idle"
                       /\ returned' =
                            <<ProcessEvent(stashed_response[1].response)>>]_vars
    /\ [][stashed_response' # stashed_response
            => \/ Process
               \/ ProcessErr
               \/ stashed_response = <<>> /\ pc = "ready"]_vars

\* the one response of the run has been processed, and a second process()
\* has aborted the controller
C15_Witness ==
    /\ pc = "aborted"
    /\ steps = 1
    /\ compute = <<>>
    /\ returned # <<>>
    /\ stashed_response = <<>>

\* C16: processing a FrontierUppers response, of the storage layer or of a
\* compute instance, applies its changes to the write frontier and returns
\* None; what process() returns is None, a PeekResponse, a subscribe
\* response, LinearizedTimestamps or a replica heartbeat.
C16_FrontierUppersNotSurfaced ==
    /\ [](returned # <<>> =>
            returned[1].kind \in {"None", "PeekResponse", "TailBatch",
                "TailDroppedAt", "LinearizedTimestamps", "ReplicaHeartbeat"})
    /\ [][(/\ Process
           /\ stashed_response # <<>>
           /\ stashed_response[1].response.kind = "FrontierUppers"
           /\ pc' # "aborted")
            => LET stashed == stashed_response[1]
                   response == stashed.response
               IN  /\ returned' = <<NoEvent>>
                   /\ IF stashed.source = "Storage"
                      THEN storage_controller'.uppers =
                            UpdateIter(storage_controller.uppers,
                                       response.upper, response.lower)
                      ELSE compute'[stashed.instance].uppers[response.id] =
                            UpdateIter(compute[stashed.instance].uppers[response.id],
                                       response.upper, response.lower)]_vars

\* a FrontierUppers of a compute instance has been processed: the write
\* frontier of the dataflow has advanced and process() returned None
C16_Witness ==
    /\ returned = <<NoEvent>>
    /\ stashed_response = <<>>
    /\ \E i \in DOMAIN compute :
            Frontier(compute[i].uppers[DataflowId]) = {MaxUpper}

\* C17: at most one PeekResponse is surfaced for a uuid: the answer of a
\* replica to an outstanding peek is forwarded and ends the peek, and an
\* answer to a peek that is no longer outstanding is discarded.
C17_OnePeekResponsePerUuid ==
    /\ [](\A u \in Uuids : surfaced[u] <= 1)
    /\ [][\A i \in DOMAIN compute, r \in ReplicaIds, u \in Uuids :
            ReplicaPeekResponse(i, r, u)
            => /\ compute'[i].stream =
                    IF u \in compute[i].peeks
                    THEN Append(compute[i].stream, PeekResponse(u))
                    ELSE compute[i].stream
               /\ u \notin compute'[i].peeks]_vars

\* both replicas have answered the peek and its one response was surfaced
C17_Witness ==
    \E u \in Uuids, i \in DOMAIN compute :
        /\ surfaced[u] = 1
        /\ returned = <<PeekResponse(u)>>
        /\ {<<r, u>> : r \in ReplicaIds} \subseteq compute[i].answered
        /\ compute[i].stream = <<>>
        /\ stashed_response = <<>>

\* is a FrontierUppers of the instance still on its way to process()
FrontierUppersPending(i) ==
    \/ \E k \in DOMAIN compute[i].stream :
            compute[i].stream[k].kind = "FrontierUppers"
    \/ /\ stashed_response # <<>>
       /\ stashed_response[1].source = "Compute"
       /\ stashed_response[1].instance = i
       /\ stashed_response[1].response.kind = "FrontierUppers"

\* C18: once every FrontierUppers of an instance has been processed, the
\* published upper of its dataflow is the meet of the uppers of its current
\* replicas.
C18_PublishedUpperIsMeet ==
    \A i \in DOMAIN compute :
        (compute[i].replicas # {} /\ ~FrontierUppersPending(i))
        => Frontier(compute[i].uppers[DataflowId]) = {Meet(compute[i])}

(***************************************************************************)
(* Claims about the lifecycle of instances.                                *)
(***************************************************************************)
\* C19: create_instance on an id that already exists leaves the state of
\* the existing instance unchanged.
C19_CreateExistingKeepsState ==
    [][\A i \in ComputeInstanceIds :
        (CreateInstance(i) /\ i \in DOMAIN compute) => compute' = compute]_vars

\* C20: drop_instance on an instance that still has a replica leaves the
\* instance and its replicas in the controller and asks nothing of the
\* orchestrator.
C20_DropInstanceWithReplicasKeepsState ==
    [][\A i \in ComputeInstanceIds, ok \in BOOLEAN :
        (/\ DropInstance(i, ok)
         /\ i \in DOMAIN compute
         /\ compute[i].replicas # {})
        => compute' = compute /\ orch_req' = <<>>]_vars

\* C21: a successful drop_replica of a managed replica asks the
\* orchestrator to drop the replica's service and removes the replica; a
\* drop_instance that follows it on the instance, then without replicas,
\* succeeds, asks the orchestrator to drop the instance's service, and the
\* instance is no longer in the controller.
C21_DropReplicaThenDropInstance ==
    [][\A i \in ComputeInstanceIds, r \in ReplicaIds :
        /\ (DropReplica(i, r, "Managed", TRUE) /\ i \in DOMAIN compute)
            => /\ pc' = "idle"
               /\ orch_req' = <<OrchestratorCall("drop_service", i, r)>>
               /\ r \notin compute'[i].replicas
        /\ (/\ DropInstance(i, TRUE)
            /\ i \in DOMAIN compute
            /\ compute[i].replicas = {}
            /\ orch_req = <<OrchestratorCall("drop_service", i, r)>>)
            => /\ pc' = "idle"
               /\ orch_req' = <<OrchestratorCall("drop_service", i, 0)>>
               /\ i \notin DOMAIN compute']_vars

\* an instance whose replica had been heard from is gone, and the last
\* request to the orchestrator is the drop of the instance's service
C21_Witness ==
    \E i \in ComputeInstanceIds, r \in ReplicaIds :
        /\ pc = "idle"
        /\ i \in dropped
        /\ i \notin DOMAIN compute
        /\ orch_req = <<OrchestratorCall("drop_service", i, 0)>>
        /\ \E when \in UpperTimes :
            stashed_response = <<UnderlyingCompute(i, ReplicaHeartbeat(r, when))>>

\* C22: when the orchestrator fails the ensure_service of an add_replica,
\* or the drop_service of a drop_replica, of a managed replica, the call
\* returns the error and the instances, their replica sets included, are
\* as before.
C22_OrchestratorFailureKeepsReplicas ==
    [][\A i \in ComputeInstanceIds, r \in ReplicaIds :
        (/\ i \in DOMAIN compute
         /\ \/ AddReplicaToInstance(i, r, "Managed", FALSE)
            \/ DropReplica(i, r, "Managed", FALSE))
        => pc' = "failed" /\ compute' = compute]_vars

\* the drop of a managed replica has failed at the orchestrator and the
\* replica is still there
C22_Witness ==
    \E i \in DOMAIN compute, r \in ReplicaIds :
        /\ pc = "failed"
        /\ orch_req = <<OrchestratorCall("drop_service", i, r)>>
        /\ r \in compute[i].replicas

\* C23: when the orchestrator fails the drop_service of a drop_instance on
\* an instance without replicas, the instance is still in the controller,
\* unchanged.
C23_DropInstanceFailureKeepsInstance ==
    [][\A i \in ComputeInstanceIds :
        (/\ DropInstance(i, FALSE)
         /\ i \in DOMAIN compute
         /\ compute[i].replicas = {})
        => compute' = compute]_vars

\* C24: drop_replica asks the orchestrator to drop the replica's service if
\* the replica is managed and asks nothing of it otherwise; unless that
\* request fails, the replica is removed from the replica set of its
\* instance.
C24_DropReplicaAsksIffManaged ==
    [][\A i \in ComputeInstanceIds, r \in ReplicaIds, config \in ReplicaConfigs :
        (DropReplica(i, r, config[1], config[2]) /\ i \in DOMAIN compute)
        => /\ orch_req' =
                IF config[1] = "Managed"
                THEN <<OrchestratorCall("drop_service", i, r)>>
                ELSE <<>>
           /\ config[2] =>
                compute'[i].replicas = compute[i].replicas \ {r}]_vars

\* a replica that had reported a frontier has been dropped without a
\* request to the orchestrator
C24_Witness ==
    \E i \in DOMAIN compute, r \in ReplicaIds :
        /\ pc = "idle"
        /\ steps = 4
        /\ orch_req = <<>>
        /\ r \notin compute[i].replicas
        /\ compute[i].replica_uppers[r] = MaxUpper

\* C25: add_replica_to_instance on an instance that was not created aborts
\* without a request to the orchestrator and without a change of the
\* instances; on a created instance a managed replica is asked of the
\* orchestrator under the replica's service and attached only if that
\* request succeeded.
C25_AddReplicaNeedsInstance ==
    [][\A i \in ComputeInstanceIds, r \in ReplicaIds, config \in ReplicaConfigs :
        AddReplicaToInstance(i, r, config[1], config[2])
        => IF i \notin DOMAIN compute
           THEN /\ pc' = "aborted"
                /\ orch_req' = <<>>
                /\ compute' = compute
           ELSE /\ config[1] = "Managed" =>
                    orch_req' = <<OrchestratorCall("ensure_service", i, r)>>
                /\ compute' =
                    IF config[2]
                    THEN [compute EXCEPT ![i] = AddReplica(@, r)]
                    ELSE compute]_vars

\* a managed replica has been attached to the second instance created
C25_Witness ==
    \E i \in DOMAIN compute, r \in ReplicaIds :
        /\ pc = "idle"
        /\ steps = 3
        /\ DOMAIN compute = ComputeInstanceIds
        /\ orch_req = <<OrchestratorCall("ensure_service", i, r)>>
        /\ compute[i].replicas = {r}

\* C26: the name generated for a pair of ids parses back to that pair, and
\* two different pairs never get the same name.
C26_ServiceNameRoundTrip ==
    /\ (origin = "generated" /\ parsed # NotParsed)
        => parsed = ParseResult("ok", generated[1], generated[2])
    /\ \A a \in ServiceIds \X ServiceIds, b \in ServiceIds \X ServiceIds :
        generate_replica_service_name(a[1], a[2])
            = generate_replica_service_name(b[1], b[2]) => a = b

\* the name of replica 7 of instance 10 has been parsed
C26_Witness ==
    /\ origin = "generated"
    /\ generated = <<10, 7>>
    /\ parsed.kind = "ok"

\* C27: no call of parse_replica_service_name panics.
C27_ParseNeverPanics == parsed.kind # "panic"

\* C28: an allow_compaction whose frontier is not at or beyond the since of
\* one of its collections returns a validation error and leaves every
\* since as it was; no step takes the since of a collection backward.
C28_CompactionNeverBackward ==
    [][/\ \A id \in CompactionIds : FrontierLe(since[id], since'[id])
       /\ \A ids \in SUBSET (CompactionIds \cup {UnknownId}),
             frontier \in SinceFrontiers :
            (/\ ComputeAllowCompaction(ids, frontier)
             /\ \E id \in ids \cap CompactionIds :
                    ~FrontierLe(since[id], frontier))
            => /\ compaction_result' = "validation_error"
               /\ since' = since]_vars

\* c1 had been compacted to the last time and a request to go back to an
\* earlier one has been refused
C28_Witness ==
    /\ compaction_result = "validation_error"
    /\ compaction_call = <<{"c1"}, {1}>>
    /\ since["c1"] = {MaxSince}

\* C29: the default size map has the names 1, 2, 4, 8, 16, 32 with scale 1
\* and as many workers as the name says, the names 2-1, 2-2, 2-4 with scale
\* 2 and 1, 2, 4 workers, no limit of memory or cpu anywhere, and no other
\* name; every scale and every number of workers is at least 1.
C29_DefaultSizeMap ==
    LET expected ==
            { <<<<"1">>, 1, 1>>, <<<<"2">>, 1, 2>>, <<<<"4">>, 1, 4>>,
              <<<<"8">>, 1, 8>>, <<<<"1", "6">>, 1, 16>>,
              <<<<"3", "2">>, 1, 32>>, <<<<"2", "-", "1">>, 2, 1>>,
              <<<<"2", "-", "2">>, 2, 2>>, <<<<"2", "-", "4">>, 2, 4>> }
    IN  /\ DOMAIN ClusterReplicaSizeMapDefault = {e[1] : e \in expected}
        /\ size_name # <<>> =>
            /\ size_config =
                {[memory_limit |-> {}, cpu_limit |-> {},
                  scale |-> e[2], workers |-> e[3]] :
                    e \in {x \in expected : x[1] = size_name}}
            /\ \A config \in size_config :
                    config.scale >= 1 /\ config.workers >= 1

\* the entry of the largest size with two processes has been looked up
C29_Witness ==
    /\ size_name = <<"2", "-", "4">>
    /\ size_config # {}

\* C31: the task starts in Rehydrate with nothing sent; an owner command
\* is passed to the transport only in Pump, on a connection that has
\* accepted something already; and the first message a connection accepts
\* is the replay of the command log, sent by the step that enters Pump,
\* which takes no command from the queue.
C31_ReplayBeforeOwnerCommands ==
    /\ (state = "Rehydrate" /\ conn = <<>> /\ handed = <<>>)
    /\ [](state = "Pump" => conn # <<>>)
    /\ [][handed' # handed => (state = "Pump" /\ conn # <<>>)]_vars
    /\ [][(state = "Rehydrate" /\ state' = "Pump")
            => /\ conn' = Replay(ingestions)
               /\ handed' = handed
               /\ command_rx' = command_rx]_vars
    /\ [][(conn' # conn /\ conn' # <<>>)
            => \/ state = "Rehydrate" /\ conn' = Replay(ingestions)
               \/ /\ state = "Pump"
                  /\ conn # <<>>
                  /\ conn' = Append(conn, handed'[Len(handed')])]_vars

\* on a connection made after a transport failure the replay of a log that
\* is not empty has been followed by the owner's second command
C31_Witness ==
    /\ state = "Pump"
    /\ fails >= 1
    /\ Len(conn) = 2
    /\ conn[1] = Replay(ingestions)[1]
    /\ conn[1].body # <<>>
    /\ Len(handed) = 2
    /\ conn[2] = handed[2]

\* C32: what the response channel has carried is what the transport
\* returned as Ok, each response once and in that order, as long as the
\* owner holds the channel; only the response received after the owner
\* dropped it is not delivered, and the task is Done then.
C32_ResponsesForwardedOnce ==
    /\ Len(response_rx) <= Len(received)
    /\ response_rx = SubSeq(received, 1, Len(response_rx))
    /\ \A i, j \in DOMAIN response_rx : i < j => response_rx[i] # response_rx[j]
    /\ owner_alive => response_rx = received
    /\ response_rx # received
        => /\ state = "Done"
           /\ Len(received) = Len(response_rx) + 1

\* both responses have been forwarded, and the task has reconnected and
\* replayed since
C32_Witness ==
    /\ state = "Pump"
    /\ owner_alive
    /\ outcome = "replay_ok"
    /\ fails >= 1
    /\ Len(received) = MaxResp
    /\ response_rx = received

\* C33: the stream of watch_compute_services has yielded one event for each
\* event of the orchestrator whose service name parses, in the
\* orchestrator's order, with the ids of the name and the process, status
\* and time of the orchestrator's event; errors and events of other names
\* have yielded nothing, and the stream can still be polled.
C33_WatchYieldsParsedEvents ==
    /\ watch_pc = "open"
    /\ LET parsing == SelectSeq(service_events,
                LAMBDA e : e.ok /\ Captures(e.service_id) # <<>>)
       IN  /\ Len(instance_events) = Len(parsing)
           /\ \A k \in DOMAIN parsing :
                /\ instance_events[k].instance_id =
                        DecimalValue(Captures(parsing[k].service_id)[1])
                /\ instance_events[k].replica_id =
                        DecimalValue(Captures(parsing[k].service_id)[2])
                /\ instance_events[k].process_id = parsing[k].process_id
                /\ instance_events[k].status = parsing[k].status
                /\ instance_events[k].time = parsing[k].time

\* the response in the stash, when it is of one of the kinds
StashHolds(kinds) ==
    /\ stashed_response # <<>>
    /\ stashed_response[1].response.kind \in kinds

\* C34: processing a subscribe response of an instance changes the counts of
\* the write frontier of its output collection by +1 for each time of the
\* upper and -1 for each time of the lower of a batch, and by -1 for each
\* time of the frontier of a DroppedAt and nothing else, and returns the
\* response.
C34_TailResponseUpdatesFrontier ==
    [][(/\ Process
        /\ StashHolds({"TailBatch", "TailDroppedAt"})
        /\ stashed_response[1].instance \in DOMAIN compute)
        => LET i == stashed_response[1].instance
               response == stashed_response[1].response
               before == compute[i].uppers[response.id]
           IN  /\ returned' = <<response>>
               /\ pc' = "idle"
               /\ \A t \in UpperTimes :
                    compute'[i].uppers[response.id][t] =
                        before[t]
                        + (IF response.kind = "TailBatch" /\ t \in response.upper
                           THEN 1 ELSE 0)
                        - (IF t \in response.lower THEN 1 ELSE 0)
               /\ \A id \in CollectionIds \ {response.id} :
                    compute'[i].uppers[id] = compute[i].uppers[id]]_vars

\* a DroppedAt has been processed: the output of the subscribe holds no
\* time any more, and the response was returned
C34_Witness ==
    /\ pc = "idle"
    /\ returned = <<TailDroppedAt(TailId, {0})>>
    /\ \E i \in DOMAIN compute : Frontier(compute[i].uppers[TailId]) = {}

\* C35: processing a replica heartbeat returns the heartbeat with the
\* replica and the time it came with, empties the stash and changes nothing
\* else of the controller.
C35_HeartbeatOnlySurfaced ==
    [][(Process /\ StashHolds({"ReplicaHeartbeat"}))
        => /\ returned' = <<stashed_response[1].response>>
           /\ returned'[1].kind = "ReplicaHeartbeat"
           /\ stashed_response' = <<>>
           /\ pc' = "idle"
           /\ compute' = compute
           /\ storage_controller' = storage_controller
           /\ orch_req' = orch_req]_vars

\* the heartbeat of a replica that had reported the last time has been
\* returned with that time
C35_Witness ==
    /\ pc = "idle"
    /\ stashed_response = <<>>
    /\ \E r \in ReplicaIds : returned = <<ReplicaHeartbeat(r, MaxUpper)>>

\* C36: process() does not abort on a reference to an absent instance.
C36_ProcessFindsInstance ==
    [][(Process /\ stashed_response # <<>>) => pc' # "aborted"]_vars

\* C37: once the owner has dropped the client, and with it the command
\* channel, the task eventually is Done.
C37_EventuallyDone == (~owner_alive) ~> (state = "Done")

\* C38: when the update of process() returns an error, the stash is empty
\* afterwards, nothing is surfaced or returned as an event, and the next
\* ready() waits for a response of a backend.
C38_ProcessErrorDrainsStash ==
    /\ [][ProcessErr
            => /\ stashed_response # <<>>
               /\ stashed_response' = <<>>
               /\ pc' = "process_failed"
               /\ returned' = <<>>
               /\ surfaced' = surfaced
               /\ Pending' = Pending]_vars
    /\ [][(CallReady /\ pc = "process_failed")
            => pc' = "ready" /\ stashed_response' = <<>>]_vars

\* process() has returned the error of its update: the stash is empty and
\* the next response of the instance is still pending
C38_Witness ==
    /\ pc = "process_failed"
    /\ stashed_response = <<>>
    /\ returned = <<>>
    /\ \E i \in DOMAIN compute : compute[i].stream # <<>>

\* C39: drop_instance of an id that is not in the controller returns Ok,
\* asks nothing of the orchestrator and leaves the instances as they are.
C39_DropAbsentInstance ==
    [][\A i \in ComputeInstanceIds, ok \in BOOLEAN :
        (DropInstance(i, ok) /\ i \notin DOMAIN compute)
        => /\ pc' = "idle"
           /\ orch_req' = <<>>
           /\ compute' = compute
           /\ dropped' = dropped
           /\ stashed_response' = stashed_response]_vars

\* an instance has been created and dropped, and dropped a second time
C39_Witness ==
    /\ pc = "idle"
    /\ steps = 3
    /\ dropped # {}
    /\ compute = <<>>
    /\ orch_req = <<>>

====
